---- MODULE Spec2Model ----
(***************************************************************************)
(* Two-phase order export of m2-order-customer-exporter.                   *)
(*                                                                         *)
(* Download stage (OrderDownloader, download-orders.js) pages through the  *)
(* remote order collection and writes one cache file per order; process    *)
(* stage (OrderProcessor, process-orders.js) turns the cache files into    *)
(* CSV rows.  Both keep a status file in the cache directory.  The disk    *)
(* (cache files, status files, CSV files) survives a kill of the process;  *)
(* everything else is lost with it.                                        *)
(***************************************************************************)
EXTENDS Naturals, Integers, Sequences, FiniteSets, TLC

(***************************************************************************)
(* Bounds of the model                                                     *)
(***************************************************************************)
\* largest remote collection the download specification enumerates
MaxOrders == 3
\* largest config.pageSize enumerated (PAGE_SIZE of the environment)
MaxPageSize == 2
\* disturbances per behaviour: kills of the running process and injected
\* failures (remote errors, disk errors) together
MaxFaults == 1
\* command invocations per behaviour
MaxRuns == 2
\* line items of an order
MaxItems == 2
\* largest config.requestsPerSecond enumerated (REQUESTS_PER_SECOND)
MaxRate == 2
\* calls of MagentoAPI methods per behaviour of the limiter specification
MaxCalls == 4
\* requests of a page that keeps failing which a behaviour follows
MaxRetries == 3

VARIABLES
    \* ---- remote system (static collection) ----
    total,          \* number of orders of the remote collection (total_count)
    pageSize,       \* config.pageSize
    shape,          \* order id -> shape of the order as the list endpoint returns it
    itemCount,      \* order.items.length of every order
    outage,         \* page whose request keeps failing with a 500 (0: none)
    exporter,       \* the single-phase exporter a behaviour runs ("": none)
    \* ---- disk ----
    cacheDir,       \* the cache directory exists
    store,          \* order id -> <<>> (no file) or <<document>> (order-<id>.json)
    dstatusFile,    \* download-status.json: <<>> or <<status>>
    pstatusFile,    \* process-status.json: <<>> or <<status>>
    outputs,        \* CSV files of the export directory: name -> sequence of lines
    \* ---- download process ----
    dpc,            \* position of downloadOrders
    dresume,        \* the resume argument of the last downloadOrders
    loopExit,       \* how the running download left its while loop
    dst,            \* its in-memory status object
    currentPage,
    pageItems,      \* ordersResponse.items (order ids) of the page being handled
    itemIdx,        \* position of the for-loop in pageItems
    curOrder,       \* the order (or customer) object the for-loop body works on
    respTotal,      \* ordersResponse.total_count of the page being handled
    pageDownloaded,
    pageSkipped,
    reqLog,         \* remote requests issued by the running download, in order
    \* ---- process process ----
    ppc,            \* position of processOrders
    pst,            \* its in-memory status object
    orderFiles,     \* getCachedOrderFiles() as read at the start of the run
    filesToProcess,
    fileIdx,        \* position of the for-loop in filesToProcess
    keepFiles,
    presume,        \* the resume argument of the running processOrders
    writer,         \* the CSVWriter of the run
    clock,          \* source of the timestamp of generated file names
    \* ---- limiter of api.js ----
    rate,           \* config.requestsPerSecond, the concurrency given to pLimit
    inFlight,       \* operations executing: [ticket, method]
    queue,          \* operations submitted to the limiter and not yet started
    calls,          \* number of MagentoAPI calls made so far
    started,        \* tickets of the limited operations in the order they started
    \* ---- process exit and history ----
    exitCode,       \* exit code of the last command that ended
    runs, kills, failures,
    anomalies,      \* kinds of failure and kill that happened so far
    hist            \* bookkeeping of the current logical process run

dvars == <<dpc, dresume, loopExit, dst, currentPage, pageItems, itemIdx, curOrder,
           respTotal, pageDownloaded, pageSkipped, reqLog>>
pvars == <<ppc, pst, orderFiles, filesToProcess, fileIdx, keepFiles, presume,
           writer, clock, hist>>
remote == <<total, pageSize, shape, itemCount, outage, exporter>>
limiter == <<rate, inFlight, queue, calls, started>>
vars == <<total, pageSize, shape, itemCount, outage, exporter, cacheDir, store, dstatusFile,
          pstatusFile, outputs, dpc, dresume, loopExit, dst, currentPage, pageItems, itemIdx,
          curOrder, respTotal, pageDownloaded, pageSkipped, reqLog, ppc, pst, orderFiles,
          filesToProcess, fileIdx, keepFiles, presume, writer, clock, exitCode,
          runs, kills, failures, anomalies, hist, rate, inFlight, queue,
          calls, started>>

(***************************************************************************)
(* Helpers                                                                 *)
(***************************************************************************)
Min(a, b) == IF a <= b THEN a ELSE b

Max(a, b) == IF a >= b THEN a ELSE b

CeilDiv(a, b) == (a + b - 1) \div b

Range(s) == {s[i] : i \in 1..Len(s)}

\* an order as the list endpoint returns it, as far as the exporters look at
\* it.  status: order.status; shipments: the list response already carries a
\* non-empty extension_attributes.shipments; dated: the shipments of the order
\* (listed or fetched) carry created_at; history: order.status_histories is
\* missing or empty ("none"), holds an entry with status complete/shipped or a
\* comment about shipping ("shipped"), or holds only other entries ("other");
\* updated: order.updated_at is set
PendingOrder == [status |-> "pending", shipments |-> FALSE, dated |-> TRUE,
                 history |-> "none", updated |-> TRUE]

OrderShapes ==
    {PendingOrder,
     [PendingOrder EXCEPT !.status = "complete"],
     [PendingOrder EXCEPT !.status = "shipped", !.shipments = TRUE],
     [PendingOrder EXCEPT !.history = "shipped"],
     [PendingOrder EXCEPT !.history = "other"],
     [PendingOrder EXCEPT !.status = "complete", !.history = "shipped"],
     [PendingOrder EXCEPT !.status = "complete", !.shipments = TRUE,
                          !.dated = FALSE],
     [PendingOrder EXCEPT !.status = "complete", !.updated = FALSE]}

Stopped == {"idle", "done", "exit", "cleaned"}

(***************************************************************************)
(* Remote API (api.js)                                                     *)
(***************************************************************************)
\* GET /rest/V1/orders with sortOrders entity_id desc: page p of the static
\* collection 1..total, pageSize items a page, highest id first
getOrdersItems(p) ==
    LET first == (p - 1) * pageSize + 1
        last == Min(p * pageSize, total)
    IN  IF first > last THEN <<>>
        ELSE [k \in 1..(last - first + 1) |-> total - (first + k - 1) + 1]

\* GET /rest/V1/customers/search with sortOrders entity_id asc: page p of the
\* static collection 1..total, lowest id first
getCustomersItems(p) ==
    LET first == (p - 1) * pageSize + 1
        last == Min(p * pageSize, total)
    IN  IF first > last THEN <<>>
        ELSE [k \in 1..(last - first + 1) |-> first + k - 1]

\* an order is placed at the shop while a download is under way: the next
\* list response reports a total_count one higher and, the list being sorted
\* by entity_id desc, starts with the new order
OrderCreated ==
    /\ total < MaxOrders
    /\ total' = total + 1
    /\ shape' = Append(shape, PendingOrder)
    /\ store' = Append(store, <<>>)
    /\ UNCHANGED <<pageSize, itemCount, outage, exporter, limiter, cacheDir, dstatusFile,
                   pstatusFile, outputs, dvars, pvars, exitCode, runs, kills,
                   failures, anomalies>>

(***************************************************************************)
(* Limiter of the remote API (api.js: limit = pLimit(requestsPerSecond))   *)
(***************************************************************************)
\* REQUESTS_PER_SECOND || '2'
DefaultRate == 2

ApiMethods == {"getOrders", "getCustomers", "getCustomer",
               "getOrderTransactions", "getOrderShipments", "testConnection"}

\* only the list methods go through the limiter
LimitedListMethods == {"getOrders", "getCustomers"}

\* the methods whose body is wrapped in limit(...): all but testConnection
LimitedMethods == {"getOrders", "getCustomers", "getCustomer",
                   "getOrderTransactions", "getOrderShipments"}

\* activeCount of the limiter
ActiveCount == Cardinality({op \in inFlight : op.method \in LimitedMethods})

\* a client calls a method of MagentoAPI without waiting for its earlier
\* calls.  A limited method hands its request to limit(): it starts at once
\* when fewer than `rate` limited operations are executing, else it waits at
\* the end of the queue.  testConnection uses the client directly.
CallApi(method) ==
    /\ calls < MaxCalls
    /\ calls' = calls + 1
    /\ LET op == [ticket |-> calls + 1, method |-> method] IN
       IF method \notin LimitedMethods
       THEN /\ inFlight' = inFlight \cup {op}
            /\ UNCHANGED <<queue, started>>
       ELSE IF ActiveCount < rate /\ queue = <<>>
       THEN /\ inFlight' = inFlight \cup {op}
            /\ started' = Append(started, op.ticket)
            /\ UNCHANGED queue
       ELSE /\ queue' = Append(queue, op)
            /\ UNCHANGED <<inFlight, started>>
    /\ UNCHANGED <<remote, rate, cacheDir, store, dstatusFile, pstatusFile,
                   outputs, dvars, pvars, exitCode, runs, kills, failures,
                   anomalies>>

\* the request of an executing operation is answered (or fails): a limited
\* operation frees its place, which the head of the queue takes
CompleteRequest(op) ==
    /\ op \in inFlight
    /\ IF op.method \in LimitedMethods /\ queue # <<>>
       THEN /\ inFlight' = (inFlight \ {op}) \cup {Head(queue)}
            /\ queue' = Tail(queue)
            /\ started' = Append(started, Head(queue).ticket)
       ELSE /\ inFlight' = inFlight \ {op}
            /\ UNCHANGED <<queue, started>>
    /\ UNCHANGED <<remote, rate, calls, cacheDir, store, dstatusFile,
                   pstatusFile, outputs, dvars, pvars, exitCode, runs, kills,
                   failures, anomalies>>

(***************************************************************************)
(* Download stage (OrderDownloader)                                        *)
(***************************************************************************)
DefaultDownloadStatus ==
    [totalOrders |-> 0, downloadedOrders |-> 0, lastProcessedPage |-> 0,
     completed |-> FALSE, errors |-> <<>>]

\* a file that writeFile has opened (created or truncated) and not filled:
\* it is in the directory and holds no complete JSON document
TornFile == <<[torn |-> TRUE]>>

\* readFile + JSON.parse of a status file: the parsed status, or the default
\* status from the catch when the file is missing or is not complete JSON
parseStatus(file, default) ==
    IF file = <<>> \/ file = TornFile THEN default ELSE file[1]

\* loadStatus of the download stage
loadDownloadStatus == parseStatus(dstatusFile, DefaultDownloadStatus)

\* the exists-check never finds the file
orderFileNeverExists(id) == FALSE

orderFileExists(id) == store[id] # <<>>

\* the completed flag is never looked at
AlreadyCompletedNever(resume, status) == FALSE

\* the completed flag is honoured without --resume as well
AlreadyCompletedAnyRun(resume, status) == status.completed

\* `if (resume && status.completed) return` of both stages
AlreadyCompleted(resume, status) == resume /\ status.completed

\* every run starts with page 1
StartPageFromOne(status) == 1

\* the page a run starts with
StartPage(status) == status.lastProcessedPage + 1

\* the test of the legacy exporter: currentPage * pageSize
HasMoreOrdersLegacy(totalCount, nextPage) == ~(totalCount <= nextPage * pageSize)

\* the test after a page: more pages unless total_count <= (currentPage - 1)
\* * pageSize, currentPage being the page after the one just handled
HasMoreOrders(totalCount, nextPage) == ~(totalCount <= (nextPage - 1) * pageSize)

\* the memory of a process-stage process that is not running
NoWriter == [filename |-> "", append |-> FALSE, ready |-> FALSE,
             fileAppend |-> FALSE]

DefaultProcessStatus ==
    [totalFiles |-> 0, processedFiles |-> 0, processedOrders |-> 0,
     totalLines |-> 0, completed |-> FALSE, errors |-> <<>>,
     outputFile |-> "", lastProcessedFile |-> 0]

ProcessIdle ==
    /\ pst' = DefaultProcessStatus
    /\ orderFiles' = <<>>
    /\ filesToProcess' = <<>>
    /\ fileIdx' = 0
    /\ writer' = NoWriter

\* the memory of a download process that is not running
DownloadIdle ==
    /\ dst' = DefaultDownloadStatus
    /\ currentPage' = 0
    /\ pageItems' = <<>>
    /\ itemIdx' = 0
    /\ curOrder' = <<>>
    /\ respTotal' = 0
    /\ pageDownloaded' = 0
    /\ pageSkipped' = 0

\* downloadOrders up to the connection test
StartDownload(resume) ==
    /\ dpc \in Stopped
    /\ ppc \in Stopped
    /\ runs < MaxRuns
    /\ runs' = runs + 1
    /\ cacheDir' = TRUE
    /\ reqLog' = <<>>
    /\ dresume' = resume
    /\ loopExit' = "none"
    /\ IF AlreadyCompleted(resume, loadDownloadStatus)
       THEN /\ dpc' = "done"
            /\ exitCode' = 0
            /\ DownloadIdle
       ELSE /\ dpc' = "test"
            /\ dst' = IF resume THEN loadDownloadStatus ELSE DefaultDownloadStatus
            /\ exitCode' = exitCode
            /\ UNCHANGED <<currentPage, pageItems, itemIdx, curOrder,
                           respTotal, pageDownloaded, pageSkipped>>
    \* the command is a new process: nothing of an earlier one is left
    /\ ppc' = "idle"
    /\ keepFiles' = FALSE
    /\ presume' = FALSE
    /\ ProcessIdle
    /\ UNCHANGED <<remote, limiter, store, dstatusFile, pstatusFile, outputs, clock,
                   hist, kills, failures, anomalies>>

\* api.testConnection and the start of the page loop
TestConnection(ok) ==
    /\ dpc = "test"
    /\ reqLog' = Append(reqLog, [kind |-> "test", key |-> 0, limited |-> FALSE])
    /\ IF ok
       THEN /\ dpc' = "page"
            /\ currentPage' = StartPage(dst)
            /\ UNCHANGED <<exitCode, failures, anomalies, dst, pageItems,
                           itemIdx, curOrder, respTotal, pageDownloaded,
                           pageSkipped>>
       ELSE /\ kills + failures < MaxFaults
            /\ failures' = failures + 1
            /\ anomalies' = anomalies \cup {"connection"}
            /\ dpc' = "exit"
            /\ exitCode' = 1
            /\ DownloadIdle
    /\ UNCHANGED <<remote, limiter, cacheDir, store, dstatusFile, pstatusFile, outputs,
                   pvars, dresume, loopExit, runs, kills>>

PageError(p) == [kind |-> "page", key |-> p]

OrderError(id) == [kind |-> "order", key |-> id]

\* any failed page request leaves the loop
AfterPageErrorAborts(outcome) == "final"

\* any failed page request is retried
AfterPageErrorRetries(outcome) == "page"

\* the catch of the while loop: break on 401/403, else continue
AfterPageError(outcome) == IF outcome = "auth" THEN "final" ELSE "page"

\* one iteration of the while loop up to the for loop: getOrders(currentPage),
\* the empty-page break, the total of page 1, and the catch of a failed request
\* (a failure of the page in outage is not an occasional fault: it recurs on
\* every request, of which a behaviour follows MaxRetries)
GetOrdersPage(outcome) ==
    /\ dpc = "page"
    /\ outage = currentPage => outcome = "transient"
    /\ reqLog' = Append(reqLog, [kind |-> "page", key |-> currentPage,
                                 limited |-> TRUE])
    /\ IF outcome = "ok"
       THEN LET items == getOrdersItems(currentPage) IN
            /\ IF Len(items) = 0
               THEN /\ dpc' = "final"
                    /\ loopExit' = "empty"
                    /\ UNCHANGED <<dst, pageItems, itemIdx, respTotal>>
               ELSE /\ dpc' = "item"
                    /\ UNCHANGED loopExit
                    /\ dst' = IF currentPage = 1
                              THEN [dst EXCEPT !.totalOrders = total]
                              ELSE dst
                    /\ pageItems' = items
                    /\ itemIdx' = 1
                    /\ respTotal' = total
            /\ pageDownloaded' = 0
            /\ pageSkipped' = 0
            /\ UNCHANGED <<failures, anomalies>>
       ELSE /\ IF outage = currentPage
               THEN Len(dst.errors) < MaxRetries /\ UNCHANGED failures
               ELSE /\ kills + failures < MaxFaults
                    /\ failures' = failures + 1
            /\ anomalies' = anomalies \cup {outcome}
            /\ dst' = [dst EXCEPT !.errors = Append(@, PageError(currentPage))]
            /\ dpc' = AfterPageError(outcome)
            /\ loopExit' = IF outcome = "auth" THEN "auth" ELSE loopExit
            /\ UNCHANGED <<pageItems, itemIdx, respTotal, pageDownloaded,
                           pageSkipped>>
    /\ UNCHANGED <<remote, limiter, cacheDir, store, dstatusFile, pstatusFile, outputs,
                   pvars, dresume, currentPage, curOrder, exitCode, runs, kills>>

\* the for loop is left after any order
NextItemEndsPage == "pageEnd"

\* the for loop moves to the next order of the page, or the page ends
NextItem == IF itemIdx < Len(pageItems) THEN "item" ELSE "pageEnd"

NextItemIdx == IF itemIdx < Len(pageItems) THEN itemIdx + 1 ELSE itemIdx

\* the order object the for loop holds: the order of the list response with
\* _transactions (tx: the transactions request answered with data) and
\* extension_attributes.shipments (ship); `written` tells whether the file
\* that holds the document holds all of it
OrderDocument(id, tx, ship) ==
    [written |-> FALSE, id |-> id, status |-> shape[id].status,
     transactions |-> tx, shipments |-> ship, dated |-> shape[id].dated,
     history |-> shape[id].history, updated |-> shape[id].updated,
     items |-> itemCount]

\* the condition under which the shipments of an order are fetched
NeedsShipments(id) ==
    ~shape[id].shipments /\ shape[id].status \in {"complete", "shipped"}

\* the catch of the for loop: the error is recorded and the loop goes on
OrderFailed(id) ==
    /\ dst' = [dst EXCEPT !.errors = Append(@, OrderError(id))]
    /\ dpc' = NextItem
    /\ itemIdx' = NextItemIdx
    /\ curOrder' = <<>>

\* body of the for loop for one order up to the answer of getOrderTransactions:
\* the exists-check and the request.  txOk: the request works and answers with
\* the order's transactions; api.js turns a failed request into {items: []}.
DownloadOrder(txOk) ==
    /\ dpc = "item"
    /\ LET id == pageItems[itemIdx] IN
       IF orderFileExists(id)
       THEN /\ txOk
            /\ pageSkipped' = pageSkipped + 1
            /\ dpc' = NextItem
            /\ itemIdx' = NextItemIdx
            /\ UNCHANGED <<curOrder, reqLog, failures, anomalies>>
       ELSE /\ reqLog' = Append(reqLog, [kind |-> "transactions", key |-> id,
                                         limited |-> TRUE])
            /\ curOrder' = <<OrderDocument(id, txOk, shape[id].shipments)>>
            /\ dpc' = IF NeedsShipments(id) THEN "shipments" ELSE "save"
            /\ IF txOk THEN UNCHANGED <<failures, anomalies>>
               ELSE /\ kills + failures < MaxFaults
                    /\ failures' = failures + 1
                    /\ anomalies' = anomalies \cup {"transactions"}
            /\ UNCHANGED <<pageSkipped, itemIdx>>
    /\ UNCHANGED <<remote, limiter, cacheDir, store, dstatusFile, pstatusFile, outputs,
                   pvars, dresume, loopExit, dst, currentPage, pageItems,
                   respTotal, pageDownloaded, exitCode, runs, kills>>

\* getOrderShipments for a fulfilled order listed without shipments.  shipOk:
\* the request works and answers with the shipments, which are merged into the
\* order; a failed request is answered as {items: []} and nothing is merged.
FetchShipments(shipOk) ==
    /\ dpc = "shipments"
    /\ reqLog' = Append(reqLog, [kind |-> "shipments", key |-> curOrder[1].id,
                                 limited |-> TRUE])
    /\ curOrder' = <<[curOrder[1] EXCEPT !.shipments = shipOk]>>
    /\ dpc' = "save"
    /\ IF shipOk THEN UNCHANGED <<failures, anomalies>>
       ELSE /\ kills + failures < MaxFaults
            /\ failures' = failures + 1
            /\ anomalies' = anomalies \cup {"shipments"}
    /\ UNCHANGED <<remote, limiter, cacheDir, store, dstatusFile, pstatusFile, outputs,
                   pvars, dresume, loopExit, dst, currentPage, pageItems, itemIdx,
                   respTotal, pageDownloaded, pageSkipped, exitCode, runs, kills>>

\* saveOrder up to the opening of the file: writeFile creates (or truncates)
\* order-<id>.json; when the open fails no file is made and the error reaches
\* the catch of the for loop
saveOrder(openOk) ==
    /\ dpc = "save"
    /\ LET id == curOrder[1].id IN
       IF openOk
       THEN /\ store' = [store EXCEPT ![id] = curOrder]
            /\ dpc' = "saving"
            /\ UNCHANGED <<dst, itemIdx, curOrder, failures, anomalies>>
       ELSE /\ kills + failures < MaxFaults
            /\ failures' = failures + 1
            /\ anomalies' = anomalies \cup {"save"}
            /\ OrderFailed(id)
            /\ UNCHANGED store
    /\ UNCHANGED <<remote, limiter, cacheDir, dstatusFile, pstatusFile, outputs, pvars,
                   dresume, loopExit, currentPage, pageItems, respTotal,
                   pageDownloaded, pageSkipped, reqLog, exitCode, runs, kills>>

\* saveOrder's writeFile writes the document and returns, and the counters
\* after it; when the write fails (disk full) the file stays as far as it was
\* written and the error reaches the catch of the for loop
SaveOrderDone(writeOk) ==
    /\ dpc = "saving"
    /\ LET id == curOrder[1].id IN
       IF writeOk
       THEN /\ store' = [store EXCEPT
                           ![id] = <<[store[id][1] EXCEPT !.written = TRUE]>>]
            /\ pageDownloaded' = pageDownloaded + 1
            /\ dst' = [dst EXCEPT !.downloadedOrders = @ + 1]
            /\ dpc' = NextItem
            /\ itemIdx' = NextItemIdx
            /\ curOrder' = <<>>
            /\ UNCHANGED <<failures, anomalies>>
       ELSE /\ kills + failures < MaxFaults
            /\ failures' = failures + 1
            /\ anomalies' = anomalies \cup {"save"}
            /\ OrderFailed(id)
            /\ UNCHANGED <<store, pageDownloaded>>
    /\ UNCHANGED <<remote, limiter, cacheDir, dstatusFile, pstatusFile, outputs, pvars,
                   dresume, loopExit, currentPage, pageItems, respTotal,
                   pageSkipped, reqLog, exitCode, runs, kills>>

\* the catch of the while loop for a saveStatus that threw: the error is
\* recorded for the page and, having no response status, the page is retried
SaveStatusFailed ==
    /\ failures' = failures + 1
    /\ anomalies' = anomalies \cup {"status"}
    /\ dst' = [dst EXCEPT !.lastProcessedPage = currentPage,
                          !.errors = Append(@, PageError(currentPage))]
    /\ dpc' = AfterPageError("transient")
    /\ UNCHANGED <<currentPage, loopExit>>

\* the end of a page: status.lastProcessedPage = currentPage and saveStatus up
\* to the opening of the status file, which truncates it
EndPage(openOk) ==
    /\ dpc = "pageEnd"
    /\ IF openOk
       THEN /\ dst' = [dst EXCEPT !.lastProcessedPage = currentPage]
            /\ dstatusFile' = TornFile
            /\ dpc' = "pageSave"
            /\ UNCHANGED <<currentPage, loopExit, failures, anomalies>>
       ELSE /\ kills + failures < MaxFaults
            /\ SaveStatusFailed
            /\ UNCHANGED dstatusFile
    /\ UNCHANGED <<remote, limiter, cacheDir, store, pstatusFile, outputs, pvars,
                   dresume, pageItems, itemIdx, curOrder, respTotal,
                   pageDownloaded, pageSkipped, reqLog, exitCode, runs, kills>>

\* the cursor moves on without the checkpoint of the page being written
EndPageDoneUnsaved(writeOk) ==
    /\ dpc = "pageSave"
    /\ writeOk
    /\ currentPage' = currentPage + 1
    /\ dpc' = IF HasMoreOrders(respTotal, currentPage') THEN "page" ELSE "final"
    /\ loopExit' = IF HasMoreOrders(respTotal, currentPage')
                   THEN loopExit ELSE "total"
    /\ UNCHANGED <<remote, limiter, cacheDir, store, dstatusFile, pstatusFile,
                   outputs, pvars, dresume, dst, pageItems, itemIdx, curOrder,
                   respTotal, pageDownloaded, pageSkipped, reqLog, exitCode,
                   runs, kills, failures, anomalies>>

\* saveStatus writes the status and returns, then currentPage++ and the
\* termination test; when the write fails the truncated file stays
EndPageDone(writeOk) ==
    /\ dpc = "pageSave"
    /\ IF writeOk
       THEN /\ dstatusFile' = <<dst>>
            /\ currentPage' = currentPage + 1
            /\ dpc' = IF HasMoreOrders(respTotal, currentPage') THEN "page"
                      ELSE "final"
            /\ loopExit' = IF HasMoreOrders(respTotal, currentPage')
                           THEN loopExit ELSE "total"
            /\ UNCHANGED <<dst, failures, anomalies>>
       ELSE /\ kills + failures < MaxFaults
            /\ SaveStatusFailed
            /\ UNCHANGED dstatusFile
    /\ UNCHANGED <<remote, limiter, cacheDir, store, pstatusFile, outputs, pvars,
                   dresume, pageItems, itemIdx, curOrder, respTotal,
                   pageDownloaded, pageSkipped, reqLog, exitCode, runs, kills>>

\* the outer catch of downloadOrders: process.exit(1)
DownloadCrashed ==
    /\ failures' = failures + 1
    /\ anomalies' = anomalies \cup {"status"}
    /\ dpc' = "exit"
    /\ exitCode' = 1
    /\ DownloadIdle

\* what follows the while loop: status.completed = true and saveStatus up to
\* the opening of the status file
FinishDownload(openOk) ==
    /\ dpc = "final"
    /\ IF openOk
       THEN /\ dst' = [dst EXCEPT !.completed = TRUE]
            /\ dstatusFile' = TornFile
            /\ dpc' = "finalSave"
            /\ UNCHANGED <<currentPage, pageItems, itemIdx, curOrder, respTotal,
                           pageDownloaded, pageSkipped, exitCode, failures,
                           anomalies>>
       ELSE /\ kills + failures < MaxFaults
            /\ DownloadCrashed
            /\ UNCHANGED dstatusFile
    /\ UNCHANGED <<remote, limiter, cacheDir, store, pstatusFile, outputs, pvars,
                   dresume, loopExit, reqLog, runs, kills>>

\* the final saveStatus writes the status and returns: downloadOrders returns
\* and the process ends with code 0; when the write fails the truncated file
\* stays and the outer catch ends the process with code 1
FinishDownloadDone(writeOk) ==
    /\ dpc = "finalSave"
    /\ IF writeOk
       THEN /\ dstatusFile' = <<dst>>
            /\ dpc' = "done"
            /\ exitCode' = 0
            /\ UNCHANGED <<dst, currentPage, pageItems, itemIdx, curOrder,
                           respTotal, pageDownloaded, pageSkipped, failures,
                           anomalies>>
       ELSE /\ kills + failures < MaxFaults
            /\ DownloadCrashed
            /\ UNCHANGED dstatusFile
    /\ UNCHANGED <<remote, limiter, cacheDir, store, pstatusFile, outputs, pvars,
                   dresume, loopExit, reqLog, runs, kills>>

\* the download process is killed: its memory is lost, the disk stays
KillDownload ==
    /\ dpc \notin Stopped
    /\ kills + failures < MaxFaults
    /\ kills' = kills + 1
    /\ anomalies' = anomalies \cup {"kill"}
    /\ dpc' = "idle"
    /\ DownloadIdle
    /\ UNCHANGED <<remote, limiter, cacheDir, store, dstatusFile, pstatusFile, outputs,
                   pvars, dresume, loopExit, reqLog, exitCode, runs, failures>>

(***************************************************************************)
(* Cache directory listing (OrderProcessor.getCachedOrderFiles)            *)
(***************************************************************************)
RECURSIVE Digits(_)
\* decimal digits of n as character codes ('0' = 48)
Digits(n) == IF n < 10 THEN <<48 + n>>
             ELSE Append(Digits(n \div 10), 48 + (n % 10))

\* "order-" and ".json" as character codes
OrderPrefix == <<111, 114, 100, 101, 114, 45>>

JsonSuffix == <<46, 106, 115, 111, 110>>

\* `order-${id}.json`
FileName(id) == OrderPrefix \o Digits(id) \o JsonSuffix

\* "download-status.json" and "process-status.json", which live in the cache
\* directory as well
DownloadStatusName ==
    <<100, 111, 119, 110, 108, 111, 97, 100, 45, 115, 116, 97, 116, 117, 115>>
        \o JsonSuffix

ProcessStatusName ==
    <<112, 114, 111, 99, 101, 115, 115, 45, 115, 116, 97, 116, 117, 115>>
        \o JsonSuffix

\* the entries of the cache directory: the unit file of an order is referred to
\* by the id of the order, the two status files by 0 and -1
DownloadStatusEntry == 0

ProcessStatusEntry == -1

EntryName(e) == IF e = DownloadStatusEntry THEN DownloadStatusName
                ELSE IF e = ProcessStatusEntry THEN ProcessStatusName
                ELSE FileName(e)

\* readdir(cacheDir): all files of the directory
readdir ==
    {id \in DOMAIN store : store[id] # <<>>}
        \cup (IF dstatusFile # <<>> THEN {DownloadStatusEntry} ELSE {})
        \cup (IF pstatusFile # <<>> THEN {ProcessStatusEntry} ELSE {})

\* String.prototype.startsWith and endsWith
startsWith(name, prefix) ==
    Len(name) >= Len(prefix) /\ \A i \in 1..Len(prefix) : name[i] = prefix[i]

endsWith(name, suffix) ==
    /\ Len(name) >= Len(suffix)
    /\ \A i \in 1..Len(suffix) : name[Len(name) - Len(suffix) + i] = suffix[i]

\* the filter of getCachedOrderFiles
IsOrderFile(name) == startsWith(name, OrderPrefix) /\ endsWith(name, JsonSuffix)

RECURSIVE StrLessFrom(_, _, _)
\* a < b for strings that agree before position i
StrLessFrom(a, b, i) ==
    IF i > Len(b) THEN FALSE
    ELSE IF i > Len(a) THEN TRUE
    ELSE IF a[i] # b[i] THEN a[i] < b[i]
    ELSE StrLessFrom(a, b, i + 1)

\* a < b as JavaScript compares strings: code unit by code unit, a proper
\* prefix first
StrLess(a, b) == StrLessFrom(a, b, 1)

\* shorter names first, as a numeric sort of the ids would order them
NameLessNatural(a, b) == Len(a) < Len(b) \/ (Len(a) = Len(b) /\ StrLess(a, b))

\* the default comparison of Array.prototype.sort()
NameLess(a, b) == StrLess(a, b)

RECURSIVE SortedFiles(_)
\* Array.prototype.sort() of the names of the entries S
SortedFiles(S) ==
    IF S = {} THEN <<>>
    ELSE LET m == CHOOSE x \in S :
                    \A y \in S \ {x} : NameLess(EntryName(x), EntryName(y))
         IN  <<m>> \o SortedFiles(S \ {m})

\* readdir filtered to order-*.json and sorted
getCachedOrderFiles ==
    SortedFiles({e \in readdir : IsOrderFile(EntryName(e))})

\* Array.prototype.indexOf, 1-based, 0 when absent (JavaScript: -1)
IndexOf(s, x) == IF \E i \in 1..Len(s) : s[i] = x
                 THEN CHOOSE i \in 1..Len(s) :
                          s[i] = x /\ \A j \in 1..(i - 1) : s[j] # x
                 ELSE 0

(***************************************************************************)
(* CSV writer (CSVWriter, csv-writer.js)                                   *)
(***************************************************************************)
\* --output names the operator may pass
OutputNames == {"out.csv"}

\* orders_export_<timestamp>.csv: a name no earlier run generated
GeneratedName(t) == "orders_export_" \o ToString(t)

HeaderLine == [order |-> 0, item |-> 0, fulfillment_date |-> "Fulfillment Date"]

\* extractFulfillmentDate: the date of the earliest shipment that has
\* created_at, else the date of the first entry of the status history that
\* tells of a shipment, else the update date of a complete order that has
\* one, else the empty string
extractFulfillmentDate(order) ==
    IF order.shipments /\ order.dated THEN "shipment"
    ELSE IF order.history = "shipped" THEN "history"
    ELSE IF order.status = "complete" /\ order.updated THEN "updated_at"
    ELSE ""

\* lines only for an order that carries shipment data
formatOrderDataShipped(order) ==
    IF order.shipments
    THEN [k \in 1..order.items |->
             [order |-> order.id, item |-> k,
              fulfillment_date |-> extractFulfillmentDate(order)]]
    ELSE <<>>

\* formatOrderData: one line for every item of the order
formatOrderData(order) ==
    [k \in 1..order.items |->
        [order |-> order.id, item |-> k,
         fulfillment_date |-> extractFulfillmentDate(order)]]

\* new CSVWriter(filename, append): the constructor and the synchronous part
\* of initializeWriter.  Without append the csvWriter is created at once; with
\* append initializeWriter is suspended at `await access` and the csvWriter
\* does not exist yet.
NewCSVWriter(filename, append, t) ==
    [filename |-> IF filename = "" THEN GeneratedName(t) ELSE filename,
     append |-> append, ready |-> ~append, fileAppend |-> FALSE]

\* the file as writeRecords finds it once it has opened it: the first write of
\* a writer created without append opens with flag 'w', which empties the
\* file, every other write with flag 'a', which keeps what is there
OpenedFile(w) ==
    IF w.fileAppend /\ w.filename \in DOMAIN outputs
    THEN outputs[w.filename] ELSE <<>>

\* the string writeRecords hands to writeFile: the header line, unless the
\* writer appends, and the lines
WriteString(header, w, lines) ==
    IF w.fileAppend THEN lines ELSE <<header>> \o lines

\* a line of which only a part is in the file
CutLine(line) ==
    [f \in DOMAIN line |-> IF f = "fulfillment_date" THEN "" ELSE -1]

\* where a write of the string can be cut short: after n of its lines, with
\* or without a part of the next one
WriteCuts(string) ==
    {c \in (0..Len(string)) \X BOOLEAN : c[2] => c[1] < Len(string)}

\* the part of the string that is in the file when its write is cut short
CutShort(string, c) ==
    SubSeq(string, 1, c[1])
        \o (IF c[2] THEN <<CutLine(string[c[1] + 1])>> ELSE <<>>)

\* the line is one of which only a part is in the file
IsCut(line) ==
    IF "order" \in DOMAIN line THEN line.order = -1 ELSE line.customer = -1

\* the line made of a part of an earlier line and the whole of this one: one
\* row of the file that is no row of any unit
GluedLine(line) ==
    [f \in DOMAIN line |-> IF f = "fulfillment_date" THEN "" ELSE -2]

\* the file ends within a line
EndsCut(content) == content # <<>> /\ IsCut(content[Len(content)])

\* the content after the bytes of the string were appended to it: when it
\* ends within a line the first line of the string continues that line
Appended(content, string) ==
    IF string = <<>> THEN content
    ELSE IF EndsCut(content)
    THEN SubSeq(content, 1, Len(content) - 1)
            \o <<IF IsCut(string[1]) THEN string[1] ELSE GluedLine(string[1])>>
            \o Tail(string)
    ELSE content \o string

\* the files when the file of the writer holds the content
FileWith(w, content) ==
    [f \in DOMAIN outputs \cup {w.filename} |->
        IF f = w.filename THEN content ELSE outputs[f]]

\* content of the file after csvWriter.writeRecords(lines): the first write
\* of a writer created without append replaces the file and starts with the
\* header line, every other write appends its bytes to what is there
WrittenFile(w, lines) ==
    Appended(OpenedFile(w), WriteString(HeaderLine, w, lines))

WriteFile(w, lines) == FileWith(w, WrittenFile(w, lines))

(***************************************************************************)
(* Process stage (OrderProcessor)                                          *)
(***************************************************************************)
\* status.processedFiles % 10 === 0
SaveEvery == 10

\* loadStatus of the process stage
loadProcessStatus == parseStatus(pstatusFile, DefaultProcessStatus)

\* loadOrder: the parsed document, <<>> (null) when the file is missing or
\* is not complete JSON
loadOrder(id) == IF store[id] # <<>> /\ store[id][1].written
                 THEN store[id] ELSE <<>>

FileError(id) == [kind |-> "file", key |-> id]

NoHistory == [started |-> FALSE, files |-> 0, units |-> {}, killedAt |-> {},
              resumed |-> FALSE]

\* a resumed run works on every listed file again
FilesToProcessAll(files, resume, status) == files

\* the files a run works on: all of them, or on resume those after the last
\* processed one
FilesToProcess(files, resume, status) ==
    IF resume /\ status.lastProcessedFile # 0
       /\ IndexOf(files, status.lastProcessedFile) > 0
    THEN SubSeq(files, IndexOf(files, status.lastProcessedFile) + 1, Len(files))
    ELSE files

\* the writer opens in append mode when the run resumes counted work
AppendMode(resume, status) == resume /\ status.processedFiles > 0

\* processOrders up to the for loop
StartProcess(resume, outputFilename, keep) ==
    /\ ppc \in Stopped
    /\ dpc \in Stopped
    /\ runs < MaxRuns
    /\ runs' = runs + 1
    /\ presume' = resume
    /\ keepFiles' = keep
    /\ \E files \in {getCachedOrderFiles} :
       LET loaded == loadProcessStatus
           status == IF resume THEN loaded
                     ELSE [DefaultProcessStatus EXCEPT
                             !.totalFiles = Len(files),
                             !.outputFile = outputFilename]
           w == NewCSVWriter(status.outputFile,
                             AppendMode(resume, status), clock)
           todo == FilesToProcess(files, resume, status)
       IN
       IF ~cacheDir \/ (~AlreadyCompleted(resume, loaded) /\ Len(files) = 0)
       THEN /\ ppc' = "exit"
            /\ exitCode' = 1
            /\ ProcessIdle
            /\ UNCHANGED <<clock, hist>>
       ELSE IF AlreadyCompleted(resume, loaded)
       THEN /\ ppc' = "done"
            /\ exitCode' = 0
            /\ ProcessIdle
            /\ UNCHANGED <<clock, hist>>
       ELSE /\ pst' = [status EXCEPT !.outputFile = w.filename]
            /\ writer' = w
            /\ clock' = clock + 1
            /\ orderFiles' = files
            /\ filesToProcess' = todo
            /\ fileIdx' = 1
            /\ ppc' = IF Len(todo) = 0 THEN "final" ELSE "file"
            /\ hist' = IF resume
                       THEN [hist EXCEPT !.resumed = TRUE]
                       ELSE [started |-> TRUE, files |-> Len(files),
                             units |-> {id \in Range(files) : loadOrder(id) # <<>>},
                             killedAt |-> {}, resumed |-> FALSE]
            /\ UNCHANGED exitCode
    \* the command is a new process: nothing of an earlier one is left
    /\ dpc' = "idle"
    /\ dresume' = FALSE
    /\ loopExit' = "none"
    /\ reqLog' = <<>>
    /\ DownloadIdle
    /\ UNCHANGED <<remote, limiter, cacheDir, store, dstatusFile, pstatusFile, outputs,
                   kills, failures, anomalies>>

\* initializeWriter of a CSVWriter constructed with append resumes after
\* `await access(filepath)`: the csvWriter is created, appending only if the
\* file exists.  Only a process run constructs such a writer; the cleanup
\* command constructs none.
InitializeWriterDone ==
    /\ ppc \notin Stopped
    /\ writer.append /\ ~writer.ready
    /\ writer' = [writer EXCEPT !.ready = TRUE,
                                !.fileAppend = writer.filename \in DOMAIN outputs]
    /\ UNCHANGED <<remote, limiter, cacheDir, store, dstatusFile, pstatusFile, outputs,
                   dvars, ppc, pst, orderFiles, filesToProcess, fileIdx,
                   keepFiles, presume, clock, hist, exitCode, runs, kills,
                   failures, anomalies>>

\* the loop is left after any file
NextFileEnds == "final"

\* where the for loop goes after a file: the next file, or the end
NextFile == IF fileIdx < Len(filesToProcess) THEN "file" ELSE "final"

NextFileIdx == IF fileIdx < Len(filesToProcess) THEN fileIdx + 1 ELSE fileIdx

\* the status is never saved inside the loop
AfterRecordNeverSaves(keep, processed) == IF ~keep THEN "delete" ELSE NextFile

\* the file is deleted whatever the flag says
AfterRecordAlwaysDelete(keep, processed) == "delete"

\* after the status update of a processed file: delete, periodic save, or on
AfterRecord(keep, processed) ==
    IF ~keep THEN "delete"
    ELSE IF processed % SaveEvery = 0 THEN "save"
    ELSE NextFile

\* body of the for loop for one file up to the opening of the CSV file by
\* writeRecords: loadOrder, formatOrderData, and the open.  openOk: the file
\* can be opened.
ProcessFile(openOk) ==
    /\ ppc = "file"
    /\ LET id == filesToProcess[fileIdx]
           order == loadOrder(id)
       IN
       IF order = <<>>
       THEN /\ openOk
            /\ pst' = [pst EXCEPT !.errors = Append(@, FileError(id))]
            /\ ppc' = NextFile
            /\ fileIdx' = NextFileIdx
            /\ UNCHANGED <<outputs, failures, anomalies>>
       ELSE IF ~writer.ready
       THEN \* this.csvWriter is undefined: writeRecords throws
            /\ openOk
            /\ pst' = [pst EXCEPT !.errors = Append(@, FileError(id))]
            /\ ppc' = NextFile
            /\ fileIdx' = NextFileIdx
            /\ anomalies' = anomalies \cup {"writer"}
            /\ UNCHANGED <<outputs, failures>>
       ELSE IF ~openOk
       THEN /\ kills + failures < MaxFaults
            /\ failures' = failures + 1
            /\ anomalies' = anomalies \cup {"write"}
            /\ pst' = [pst EXCEPT !.errors = Append(@, FileError(id))]
            /\ ppc' = NextFile
            /\ fileIdx' = NextFileIdx
            /\ UNCHANGED outputs
       ELSE /\ outputs' = FileWith(writer, OpenedFile(writer))
            /\ ppc' = "write"
            /\ UNCHANGED <<pst, fileIdx, failures, anomalies>>
    /\ UNCHANGED <<remote, limiter, cacheDir, store, dstatusFile, pstatusFile, dvars,
                   orderFiles, filesToProcess, keepFiles, presume, writer, clock,
                   hist, exitCode, runs, kills>>

\* the string that the writeRecords under way is writing
PendingString ==
    WriteString(HeaderLine, writer,
                formatOrderData(loadOrder(filesToProcess[fileIdx])[1]))

\* writeRecords writes the string and returns, and the status update after
\* it; when the write fails (disk full) the file stays as far as it was
\* written and the error reaches the catch of the loop body
WriteRecords(writeOk) ==
    /\ ppc = "write"
    /\ LET id == filesToProcess[fileIdx]
           lines == formatOrderData(loadOrder(id)[1])
       IN
       IF writeOk
       THEN /\ outputs' = WriteFile(writer, lines)
            /\ writer' = [writer EXCEPT !.fileAppend = TRUE]
            /\ pst' = [pst EXCEPT !.processedFiles = @ + 1,
                                  !.processedOrders = @ + 1,
                                  !.totalLines = @ + Len(lines),
                                  !.lastProcessedFile = id]
            /\ ppc' = AfterRecord(keepFiles, pst'.processedFiles)
            /\ fileIdx' = IF ppc' = "file" THEN fileIdx + 1 ELSE fileIdx
            /\ UNCHANGED <<failures, anomalies>>
       ELSE /\ kills + failures < MaxFaults
            /\ failures' = failures + 1
            /\ anomalies' = anomalies \cup {"write"}
            /\ \E c \in WriteCuts(PendingString) :
                  /\ c[1] < Len(PendingString)
                  /\ outputs' = FileWith(writer,
                                 Appended(OpenedFile(writer),
                                          CutShort(PendingString, c)))
            /\ pst' = [pst EXCEPT !.errors = Append(@, FileError(id))]
            /\ ppc' = NextFile
            /\ fileIdx' = NextFileIdx
            /\ UNCHANGED writer
    /\ UNCHANGED <<remote, limiter, cacheDir, store, dstatusFile, pstatusFile, dvars,
                   orderFiles, filesToProcess, keepFiles, presume, clock, hist,
                   exitCode, runs, kills>>

\* deleteOrderFile of the file just processed; a failed unlink only warns
DeleteFile(ok) ==
    /\ ppc = "delete"
    /\ LET id == filesToProcess[fileIdx] IN
       IF ok
       THEN /\ store' = [store EXCEPT ![id] = <<>>]
            /\ UNCHANGED <<failures, anomalies>>
       ELSE /\ kills + failures < MaxFaults
            /\ failures' = failures + 1
            /\ anomalies' = anomalies \cup {"delete"}
            /\ UNCHANGED store
    /\ ppc' = IF pst.processedFiles % SaveEvery = 0 THEN "save" ELSE NextFile
    /\ fileIdx' = IF ppc' = "file" THEN fileIdx + 1 ELSE fileIdx
    /\ UNCHANGED <<remote, limiter, cacheDir, dstatusFile, pstatusFile, outputs, dvars,
                   pst, orderFiles, filesToProcess, keepFiles, presume, writer,
                   clock, hist, exitCode, runs, kills>>

\* the catch of the loop body for a saveStatus that threw: the error is
\* recorded for the file at hand, which was processed, and the loop goes on
SaveProgressFailed ==
    /\ failures' = failures + 1
    /\ anomalies' = anomalies \cup {"status"}
    /\ pst' = [pst EXCEPT
                 !.errors = Append(@, FileError(filesToProcess[fileIdx]))]
    /\ ppc' = NextFile
    /\ fileIdx' = NextFileIdx

\* the periodic saveStatus up to the opening of the status file, which
\* truncates it
SaveProgress(openOk) ==
    /\ ppc = "save"
    /\ IF openOk
       THEN /\ pstatusFile' = TornFile
            /\ ppc' = "saving"
            /\ UNCHANGED <<pst, fileIdx, failures, anomalies>>
       ELSE /\ kills + failures < MaxFaults
            /\ SaveProgressFailed
            /\ UNCHANGED pstatusFile
    /\ UNCHANGED <<remote, limiter, cacheDir, store, dstatusFile, outputs, dvars,
                   orderFiles, filesToProcess, keepFiles, presume, writer,
                   clock, hist, exitCode, runs, kills>>

\* the periodic saveStatus writes the status and returns; when the write
\* fails the truncated file stays
SaveProgressDone(writeOk) ==
    /\ ppc = "saving"
    /\ IF writeOk
       THEN /\ pstatusFile' = <<pst>>
            /\ ppc' = NextFile
            /\ fileIdx' = NextFileIdx
            /\ UNCHANGED <<pst, failures, anomalies>>
       ELSE /\ kills + failures < MaxFaults
            /\ SaveProgressFailed
            /\ UNCHANGED pstatusFile
    /\ UNCHANGED <<remote, limiter, cacheDir, store, dstatusFile, outputs, dvars,
                   orderFiles, filesToProcess, keepFiles, presume, writer,
                   clock, hist, exitCode, runs, kills>>

\* the outer catch of processOrders: process.exit(1)
ProcessCrashed ==
    /\ failures' = failures + 1
    /\ anomalies' = anomalies \cup {"status"}
    /\ ppc' = "exit"
    /\ exitCode' = 1
    /\ ProcessIdle

\* what follows the for loop: status.completed = true and saveStatus up to the
\* opening of the status file
FinishProcess(openOk) ==
    /\ ppc = "final"
    /\ IF openOk
       THEN /\ pst' = [pst EXCEPT !.completed = TRUE]
            /\ pstatusFile' = TornFile
            /\ ppc' = "finalSave"
            /\ UNCHANGED <<orderFiles, filesToProcess, fileIdx, writer,
                           exitCode, failures, anomalies>>
       ELSE /\ kills + failures < MaxFaults
            /\ ProcessCrashed
            /\ UNCHANGED pstatusFile
    /\ UNCHANGED <<remote, limiter, cacheDir, store, dstatusFile, outputs, dvars,
                   keepFiles, presume, clock, hist, runs, kills>>

\* the final saveStatus writes the status and returns: processOrders returns
\* and the process ends with code 0; when the write fails the truncated file
\* stays and the outer catch ends the process with code 1
FinishProcessDone(writeOk) ==
    /\ ppc = "finalSave"
    /\ IF writeOk
       THEN /\ pstatusFile' = <<pst>>
            /\ ppc' = "done"
            /\ exitCode' = 0
            /\ UNCHANGED <<pst, orderFiles, filesToProcess, fileIdx, writer,
                           failures, anomalies>>
       ELSE /\ kills + failures < MaxFaults
            /\ ProcessCrashed
            /\ UNCHANGED pstatusFile
    /\ UNCHANGED <<remote, limiter, cacheDir, store, dstatusFile, outputs, dvars,
                   keepFiles, presume, clock, hist, runs, kills>>

\* the process-stage process (processOrders or cleanup) is killed: its memory
\* is lost, the disk stays
KillProcess ==
    /\ ppc \notin Stopped
    /\ kills + failures < MaxFaults
    /\ kills' = kills + 1
    /\ anomalies' = anomalies \cup {"kill"}
    /\ hist' = [hist EXCEPT !.killedAt = @ \cup {<<ppc, pst.processedFiles>>}]
    /\ ppc' = "idle"
    /\ ProcessIdle
    /\ IF ppc = "write"
       THEN \* killed inside writeRecords: a part of the string is in the file
            \E c \in WriteCuts(PendingString) :
                outputs' = FileWith(writer,
                               Appended(OpenedFile(writer),
                                        CutShort(PendingString, c)))
       ELSE UNCHANGED outputs
    /\ UNCHANGED <<remote, limiter, cacheDir, store, dstatusFile, pstatusFile,
                   dvars, keepFiles, presume, clock, exitCode, runs, failures>>

\* the positions of the cleanup command
Cleaning == {"cleanup", "unlinkStatus", "unlinkDownloadStatus"}

\* the cleanup command up to its for loop: the listing of the unit files
Cleanup ==
    /\ ppc \in Stopped
    /\ dpc \in Stopped
    /\ runs < MaxRuns
    /\ runs' = runs + 1
    /\ \E files \in {getCachedOrderFiles} :
       /\ orderFiles' = files
       /\ ppc' = IF Len(files) = 0 THEN "unlinkStatus" ELSE "cleanup"
    /\ fileIdx' = 1
    /\ pst' = DefaultProcessStatus
    /\ filesToProcess' = <<>>
    /\ writer' = NoWriter
    /\ keepFiles' = FALSE
    /\ presume' = FALSE
    /\ hist' = NoHistory
    /\ dpc' = "idle"
    /\ dresume' = FALSE
    /\ loopExit' = "none"
    /\ reqLog' = <<>>
    /\ DownloadIdle
    /\ UNCHANGED <<remote, limiter, cacheDir, store, dstatusFile, pstatusFile,
                   outputs, clock, exitCode, kills, failures, anomalies>>

\* one round of cleanup's for loop: deleteOrderFile of a listed file; a
\* failed unlink only warns
CleanupFile(ok) ==
    /\ ppc = "cleanup"
    /\ LET id == orderFiles[fileIdx] IN
       IF ok
       THEN /\ store' = [store EXCEPT ![id] = <<>>]
            /\ UNCHANGED <<failures, anomalies>>
       ELSE /\ kills + failures < MaxFaults
            /\ failures' = failures + 1
            /\ anomalies' = anomalies \cup {"delete"}
            /\ UNCHANGED store
    /\ IF fileIdx < Len(orderFiles)
       THEN fileIdx' = fileIdx + 1 /\ ppc' = "cleanup"
       ELSE fileIdx' = fileIdx /\ ppc' = "unlinkStatus"
    /\ UNCHANGED <<remote, limiter, cacheDir, dstatusFile, pstatusFile, outputs, dvars,
                   pst, orderFiles, filesToProcess, keepFiles, presume, writer,
                   clock, hist, exitCode, runs, kills>>

\* cleanup returns: the command ends with code 0
CleanupEnds ==
    /\ ppc' = "cleaned"
    /\ exitCode' = 0
    /\ ProcessIdle

\* unlink(process-status.json), the first statement of the try block of the
\* status files: when it throws (no such file, or the unlink fails) the catch
\* ends the block and download-status.json is not touched
CleanupStatus(ok) ==
    /\ ppc = "unlinkStatus"
    /\ IF pstatusFile = <<>>
       THEN /\ ok
            /\ CleanupEnds
            /\ UNCHANGED <<pstatusFile, failures, anomalies>>
       ELSE IF ok
       THEN /\ pstatusFile' = <<>>
            /\ ppc' = "unlinkDownloadStatus"
            /\ UNCHANGED <<pst, orderFiles, filesToProcess, fileIdx, writer,
                           exitCode, failures, anomalies>>
       ELSE /\ kills + failures < MaxFaults
            /\ failures' = failures + 1
            /\ anomalies' = anomalies \cup {"unlink"}
            /\ CleanupEnds
            /\ UNCHANGED pstatusFile
    /\ UNCHANGED <<remote, limiter, cacheDir, store, dstatusFile, outputs, dvars,
                   keepFiles, presume, clock, hist, runs, kills>>

\* unlink(download-status.json), the second statement of the try block
CleanupDownloadStatus(ok) ==
    /\ ppc = "unlinkDownloadStatus"
    /\ IF dstatusFile = <<>>
       THEN ok /\ UNCHANGED <<dstatusFile, failures, anomalies>>
       ELSE IF ok
       THEN dstatusFile' = <<>> /\ UNCHANGED <<failures, anomalies>>
       ELSE /\ kills + failures < MaxFaults
            /\ failures' = failures + 1
            /\ anomalies' = anomalies \cup {"unlink"}
            /\ UNCHANGED dstatusFile
    /\ CleanupEnds
    /\ UNCHANGED <<remote, limiter, cacheDir, store, pstatusFile, outputs, dvars,
                   keepFiles, presume, clock, hist, runs, kills>>

(***************************************************************************)
(* Specifications                                                          *)
(***************************************************************************)
\* largest cache the process specification starts from
MaxUnits == 11

NoProcesses ==
    /\ dpc = "idle"
    /\ dresume = FALSE
    /\ loopExit = "none"
    /\ dst = DefaultDownloadStatus
    /\ currentPage = 0
    /\ pageItems = <<>>
    /\ itemIdx = 0
    /\ curOrder = <<>>
    /\ respTotal = 0
    /\ pageDownloaded = 0
    /\ pageSkipped = 0
    /\ reqLog = <<>>
    /\ ppc = "idle"
    /\ pst = DefaultProcessStatus
    /\ orderFiles = <<>>
    /\ filesToProcess = <<>>
    /\ fileIdx = 0
    /\ keepFiles = FALSE
    /\ presume = FALSE
    /\ writer = NoWriter
    /\ clock = 1
    /\ exitCode = 0
    /\ runs = 0
    /\ kills = 0
    /\ failures = 0
    /\ anomalies = {}
    /\ hist = NoHistory
    /\ inFlight = {}
    /\ queue = <<>>
    /\ calls = 0
    /\ started = <<>>

\* a fresh installation: nothing on disk, any small remote collection of
\* pending orders of which one may have another shape
InitDownload ==
    /\ total \in 0..MaxOrders
    /\ pageSize \in 1..MaxPageSize
    /\ \E other \in 0..total, sh \in OrderShapes :
          shape = [id \in 1..total |-> IF id = other THEN sh ELSE PendingOrder]
    /\ itemCount = MaxItems
    /\ outage = 0
    /\ exporter = ""
    /\ rate = DefaultRate
    /\ cacheDir = FALSE
    /\ store = [id \in 1..total |-> <<>>]
    /\ dstatusFile = <<>>
    /\ pstatusFile = <<>>
    /\ outputs = <<>>
    /\ NoProcesses

\* the disk after a complete download of `total` pending orders (none, one,
\* two, or more than the process stage handles between two saves).  Orders are
\* fetched highest id first; in a small cache, which is one page, the file of
\* the last one (id 1) may be cut short: by a kill of the download while it
\* was written, after which download --resume skipped every file of the page
\* and counted none, or by a write that failed, which was recorded as the
\* error of the order.
InitProcess ==
    /\ total \in {0, 1, 2, MaxUnits}
    /\ pageSize = MaxPageSize
    /\ shape = [id \in 1..total |-> PendingOrder]
    /\ itemCount = MaxItems
    /\ outage = 0
    /\ exporter = ""
    /\ rate = DefaultRate
    /\ cacheDir = TRUE
    /\ \E cut \in (IF total = MaxUnits THEN {0} ELSE 0..Min(total, 1)),
          origin \in {"kill", "write"} :
          /\ cut = 0 => origin = "kill"
          /\ store = [id \in 1..total |->
                        <<[OrderDocument(id, TRUE, FALSE) EXCEPT
                             !.written = id # cut]>>]
          /\ dstatusFile =
                <<[totalOrders |-> total,
                   downloadedOrders |-> IF cut = 0 THEN total
                                        ELSE IF origin = "kill" THEN 0
                                        ELSE total - 1,
                   lastProcessedPage |-> CeilDiv(total, pageSize),
                   completed |-> TRUE,
                   errors |-> IF cut # 0 /\ origin = "write"
                              THEN <<OrderError(cut)>> ELSE <<>>]>>
    /\ pstatusFile = <<>>
    /\ outputs = <<>>
    /\ NoProcesses

\* a client of MagentoAPI with any configured rate; nothing on disk
InitLimiter ==
    /\ rate \in 1..MaxRate
    /\ total = 0
    /\ pageSize = 1
    /\ shape = <<>>
    /\ itemCount = MaxItems
    /\ outage = 0
    /\ exporter = ""
    /\ cacheDir = FALSE
    /\ store = <<>>
    /\ dstatusFile = <<>>
    /\ pstatusFile = <<>>
    /\ outputs = <<>>
    /\ NoProcesses

NextLimiter ==
    \/ \E method \in ApiMethods : CallApi(method)
    \/ \E op \in inFlight : CompleteRequest(op)

NextDownload ==
    \/ \E resume \in BOOLEAN : StartDownload(resume)
    \/ \E ok \in BOOLEAN : TestConnection(ok)
    \/ \E outcome \in {"ok", "auth", "transient"} : GetOrdersPage(outcome)
    \/ \E txOk \in BOOLEAN : DownloadOrder(txOk)
    \/ \E shipOk \in BOOLEAN : FetchShipments(shipOk)
    \/ \E openOk \in BOOLEAN : saveOrder(openOk)
    \/ \E writeOk \in BOOLEAN : SaveOrderDone(writeOk)
    \/ \E openOk \in BOOLEAN : EndPage(openOk)
    \/ \E writeOk \in BOOLEAN : EndPageDone(writeOk)
    \/ \E openOk \in BOOLEAN : FinishDownload(openOk)
    \/ \E writeOk \in BOOLEAN : FinishDownloadDone(writeOk)
    \/ KillDownload

NextProcess ==
    \/ \E resume \in BOOLEAN, out \in OutputNames \cup {""}, keep \in BOOLEAN :
          StartProcess(resume, out, keep)
    \/ InitializeWriterDone
    \/ \E openOk \in BOOLEAN : ProcessFile(openOk)
    \/ \E writeOk \in BOOLEAN : WriteRecords(writeOk)
    \/ \E ok \in BOOLEAN : DeleteFile(ok)
    \/ \E openOk \in BOOLEAN : SaveProgress(openOk)
    \/ \E writeOk \in BOOLEAN : SaveProgressDone(writeOk)
    \/ \E openOk \in BOOLEAN : FinishProcess(openOk)
    \/ \E writeOk \in BOOLEAN : FinishProcessDone(writeOk)
    \/ KillProcess
    \/ Cleanup
    \/ \E ok \in BOOLEAN : CleanupFile(ok)
    \/ \E ok \in BOOLEAN : CleanupStatus(ok)
    \/ \E ok \in BOOLEAN : CleanupDownloadStatus(ok)

Next == NextDownload \/ NextProcess

SpecDownload == InitDownload /\ [][NextDownload]_vars

SpecProcess == InitProcess /\ [][NextProcess]_vars

SpecLimiter == InitLimiter /\ [][NextLimiter]_vars

\* the download stage against a collection that grows during the run
NextDrift == NextDownload \/ OrderCreated

SpecDrift == InitDownload /\ [][NextDrift]_vars

\* the download stage against a server that keeps answering one page of the
\* collection with a 500
InitOutage ==
    /\ total \in 0..MaxOrders
    /\ pageSize \in 1..MaxPageSize
    /\ \E other \in 0..total, sh \in OrderShapes :
          shape = [id \in 1..total |-> IF id = other THEN sh ELSE PendingOrder]
    /\ itemCount = MaxItems
    /\ outage \in 0..(CeilDiv(total, pageSize) + 1)
    /\ exporter = ""
    /\ rate = DefaultRate
    /\ cacheDir = FALSE
    /\ store = [id \in 1..total |-> <<>>]
    /\ dstatusFile = <<>>
    /\ pstatusFile = <<>>
    /\ outputs = <<>>
    /\ NoProcesses

\* a step of the running download process
DownloadStep ==
    \/ \E ok \in BOOLEAN : TestConnection(ok)
    \/ \E outcome \in {"ok", "auth", "transient"} : GetOrdersPage(outcome)
    \/ \E txOk \in BOOLEAN : DownloadOrder(txOk)
    \/ \E shipOk \in BOOLEAN : FetchShipments(shipOk)
    \/ \E openOk \in BOOLEAN : saveOrder(openOk)
    \/ \E writeOk \in BOOLEAN : SaveOrderDone(writeOk)
    \/ \E openOk \in BOOLEAN : EndPage(openOk)
    \/ \E writeOk \in BOOLEAN : EndPageDone(writeOk)
    \/ \E openOk \in BOOLEAN : FinishDownload(openOk)
    \/ \E writeOk \in BOOLEAN : FinishDownloadDone(writeOk)

NextOutage ==
    \/ \E resume \in BOOLEAN : StartDownload(resume)
    \/ DownloadStep

\* a download process that is not killed keeps running: every await of
\* downloadOrders is answered
SpecOutage == InitOutage /\ [][NextOutage]_vars /\ WF_vars(DownloadStep)

(***************************************************************************)
(* Single-phase exporters: exportCustomers, the exportOrders of the legacy *)
(* index.js and the exportOrders of the current index.js                   *)
(***************************************************************************)
Exporters == {"customers", "legacy", "orders"}

\* most addresses of a customer
MaxAddresses == 2

\* the test that follows currentPage++: the current exportOrders compares the
\* total with (currentPage - 1) * pageSize, exportCustomers and the legacy
\* exportOrders compare it with currentPage * pageSize
HasMoreItems(which, totalCount, nextPage) ==
    IF which = "orders"
    THEN ~(totalCount <= (nextPage - 1) * pageSize)
    ELSE ~(totalCount <= nextPage * pageSize)

\* the header lines of the CSVWriter of the legacy index.js, which has no
\* fulfillment date column, and of the CustomerCSVWriter
LegacyHeaderLine == [order |-> 0, item |-> 0]

CustomerHeaderLine == [customer |-> 0, address |-> 0]

ExportHeader(which) ==
    IF which = "orders" THEN HeaderLine
    ELSE IF which = "legacy" THEN LegacyHeaderLine
    ELSE CustomerHeaderLine

\* customers_export_<timestamp>.csv
CustomerFileName(t) == "customers_export_" \o ToString(t)

\* formatOrderData of the legacy CSVWriter: one line for every item of the
\* order, without a fulfillment date
legacyFormatOrderData(order) ==
    [k \in 1..order.items |-> [order |-> order.id, item |-> k]]

\* formatCustomerData: one row with empty address fields for a customer
\* without addresses, else one row for every address
formatCustomerData(customer) ==
    IF customer.addresses = 0
    THEN <<[customer |-> customer.id, address |-> 0]>>
    ELSE [k \in 1..customer.addresses |->
             [customer |-> customer.id, address |-> k]]

\* a customer of the list response
Customer(id) == [id |-> id, addresses |-> shape[id].addresses]

\* the rows an exporter writes for the entity its loop body holds
ExportLines(which, entity) ==
    IF which = "customers" THEN formatCustomerData(entity)
    ELSE IF which = "legacy" THEN legacyFormatOrderData(entity)
    ELSE formatOrderData(entity)

\* the page of the list an exporter asks for
ExportItems(which, p) ==
    IF which = "customers" THEN getCustomersItems(p) ELSE getOrdersItems(p)

\* where the body of the for loop starts: exportCustomers makes no request for
\* a customer and goes to the write at once
ItemStart(which) == IF which = "customers" THEN "write" ELSE "item"

\* the files after writeRecords of an exporter's writer, all of which are
\* created without append: the first write replaces the file and starts with
\* the header line, every other write appends
ExportWriteFile(which, w, lines) ==
    FileWith(w, Appended(OpenedFile(w),
                         WriteString(ExportHeader(which), w, lines)))

\* the exporter up to its first await after the writer is made: a new writer
\* of a new file, page 1; the current exportOrders tests the connection first
StartExport ==
    /\ dpc \in Stopped
    /\ runs < MaxRuns
    /\ runs' = runs + 1
    /\ writer' = [NewCSVWriter("", FALSE, clock) EXCEPT
                    !.filename = IF exporter = "customers"
                                 THEN CustomerFileName(clock) ELSE @]
    /\ clock' = clock + 1
    /\ currentPage' = 1
    /\ reqLog' = <<>>
    /\ loopExit' = "none"
    /\ dpc' = IF exporter = "orders" THEN "test" ELSE "page"
    /\ UNCHANGED <<remote, limiter, cacheDir, store, dstatusFile, pstatusFile, outputs,
                   dresume, dst, pageItems, itemIdx, curOrder, respTotal,
                   pageDownloaded, pageSkipped, ppc, pst, orderFiles,
                   filesToProcess, fileIdx, keepFiles, presume, hist, exitCode,
                   kills, failures, anomalies>>

\* api.testConnection of the current exportOrders: process.exit(1) when it
\* fails
ExportTestConnection(ok) ==
    /\ dpc = "test" /\ exporter = "orders"
    /\ reqLog' = Append(reqLog, [kind |-> "test", key |-> 0, limited |-> FALSE])
    /\ IF ok
       THEN /\ dpc' = "page"
            /\ UNCHANGED <<exitCode, failures, anomalies>>
       ELSE /\ kills + failures < MaxFaults
            /\ failures' = failures + 1
            /\ anomalies' = anomalies \cup {"connection"}
            /\ dpc' = "exit"
            /\ exitCode' = 1
    /\ UNCHANGED <<remote, limiter, cacheDir, store, dstatusFile, pstatusFile, outputs,
                   dresume, loopExit, dst, currentPage, pageItems, itemIdx,
                   curOrder, respTotal, pageDownloaded, pageSkipped, pvars,
                   runs, kills>>

\* the statuses that make the catch of the while loop break: 401 ("auth") in
\* every exporter, 403 and 404 ("denied") in the current exportOrders only
ExportBreaks(which, outcome) ==
    outcome = "auth" \/ (which = "orders" /\ outcome = "denied")

\* one iteration of the while loop up to the for loop: the page request, the
\* end on an empty page, and the catch (break, or the page again)
ExportPage(outcome) ==
    /\ dpc = "page" /\ exporter \in Exporters
    /\ reqLog' = Append(reqLog, [kind |-> "page", key |-> currentPage,
                                 limited |-> TRUE])
    /\ IF outcome = "ok"
       THEN LET items == ExportItems(exporter, currentPage) IN
            /\ IF Len(items) = 0
               THEN /\ dpc' = "done"
                    /\ loopExit' = "empty"
                    /\ exitCode' = 0
                    /\ UNCHANGED <<pageItems, itemIdx, respTotal>>
               ELSE /\ dpc' = ItemStart(exporter)
                    /\ pageItems' = items
                    /\ itemIdx' = 1
                    /\ respTotal' = total
                    /\ UNCHANGED <<loopExit, exitCode>>
            /\ UNCHANGED <<failures, anomalies>>
       ELSE /\ kills + failures < MaxFaults
            /\ failures' = failures + 1
            /\ anomalies' = anomalies \cup {outcome}
            /\ dpc' = IF ExportBreaks(exporter, outcome) THEN "done" ELSE "page"
            /\ loopExit' = IF ExportBreaks(exporter, outcome) THEN "auth"
                           ELSE loopExit
            /\ exitCode' = IF ExportBreaks(exporter, outcome) THEN 0
                           ELSE exitCode
            /\ UNCHANGED <<pageItems, itemIdx, respTotal>>
    /\ UNCHANGED <<remote, limiter, cacheDir, store, dstatusFile, pstatusFile, outputs,
                   dresume, dst, currentPage, curOrder, pageDownloaded,
                   pageSkipped, pvars, runs, kills>>

\* the body of the for loop of an order exporter up to the answer of
\* getOrderTransactions
ExportItem(txOk) ==
    /\ dpc = "item" /\ exporter \in Exporters
    /\ LET id == pageItems[itemIdx] IN
       /\ reqLog' = Append(reqLog, [kind |-> "transactions", key |-> id,
                                    limited |-> TRUE])
       /\ curOrder' = <<OrderDocument(id, txOk, shape[id].shipments)>>
       /\ dpc' = IF exporter = "orders" /\ NeedsShipments(id)
                 THEN "shipments" ELSE "write"
    /\ IF txOk THEN UNCHANGED <<failures, anomalies>>
       ELSE /\ kills + failures < MaxFaults
            /\ failures' = failures + 1
            /\ anomalies' = anomalies \cup {"transactions"}
    /\ UNCHANGED <<remote, limiter, cacheDir, store, dstatusFile, pstatusFile, outputs,
                   dresume, loopExit, dst, currentPage, pageItems, itemIdx,
                   respTotal, pageDownloaded, pageSkipped, pvars, exitCode,
                   runs, kills>>

\* getOrderShipments of the current exportOrders, merged into the order
ExportShipments(shipOk) ==
    /\ dpc = "shipments" /\ exporter \in Exporters
    /\ reqLog' = Append(reqLog, [kind |-> "shipments", key |-> curOrder[1].id,
                                 limited |-> TRUE])
    /\ curOrder' = <<[curOrder[1] EXCEPT !.shipments = shipOk]>>
    /\ dpc' = "write"
    /\ IF shipOk THEN UNCHANGED <<failures, anomalies>>
       ELSE /\ kills + failures < MaxFaults
            /\ failures' = failures + 1
            /\ anomalies' = anomalies \cup {"shipments"}
    /\ UNCHANGED <<remote, limiter, cacheDir, store, dstatusFile, pstatusFile, outputs,
                   dresume, loopExit, dst, currentPage, pageItems, itemIdx,
                   respTotal, pageDownloaded, pageSkipped, pvars, exitCode,
                   runs, kills>>

\* the entity the body of the for loop holds
ExportEntity ==
    IF exporter = "customers" THEN Customer(pageItems[itemIdx]) ELSE curOrder[1]

\* the string that the writeRecords of the exporter under way is writing
ExportString ==
    WriteString(ExportHeader(exporter), writer,
                ExportLines(exporter, ExportEntity))

\* the for loop after the write of an entity or the catch of its body: the
\* next entity, or after the last one of the page currentPage++ and the test
\* for more pages
ExportNextItem ==
    /\ curOrder' = <<>>
    /\ IF itemIdx < Len(pageItems)
       THEN /\ itemIdx' = itemIdx + 1
            /\ dpc' = ItemStart(exporter)
            /\ UNCHANGED <<currentPage, loopExit, exitCode>>
       ELSE /\ currentPage' = currentPage + 1
            /\ dpc' = IF HasMoreItems(exporter, respTotal, currentPage + 1)
                      THEN "page" ELSE "done"
            /\ loopExit' = IF dpc' = "done" THEN "total" ELSE loopExit
            /\ exitCode' = IF dpc' = "done" THEN 0 ELSE exitCode
            /\ UNCHANGED itemIdx

\* the rows of the entity are formatted and writeRecords opens the CSV file;
\* a file that cannot be opened is logged and the loop goes on
ExportWrite(openOk) ==
    /\ dpc = "write" /\ exporter \in Exporters
    /\ IF openOk
       THEN /\ outputs' = FileWith(writer, OpenedFile(writer))
            /\ dpc' = "writing"
            /\ UNCHANGED <<curOrder, itemIdx, currentPage, loopExit, exitCode,
                           failures, anomalies>>
       ELSE /\ kills + failures < MaxFaults
            /\ failures' = failures + 1
            /\ anomalies' = anomalies \cup {"write"}
            /\ ExportNextItem
            /\ UNCHANGED outputs
    /\ UNCHANGED <<remote, limiter, cacheDir, store, dstatusFile, pstatusFile,
                   dresume, dst, pageItems, respTotal, pageDownloaded, pageSkipped,
                   reqLog, writer, ppc, pst, orderFiles, filesToProcess, fileIdx,
                   keepFiles, presume, clock, hist, runs, kills>>

\* writeRecords writes the string and returns, and the rest of the body of
\* the for loop; when the write fails the file stays as far as it was
\* written, the failure is logged and the loop goes on
ExportWriteDone(writeOk) ==
    /\ dpc = "writing" /\ exporter \in Exporters
    /\ IF writeOk
       THEN /\ outputs' = ExportWriteFile(exporter, writer,
                                          ExportLines(exporter, ExportEntity))
            /\ writer' = [writer EXCEPT !.fileAppend = TRUE]
            /\ UNCHANGED <<failures, anomalies>>
       ELSE /\ kills + failures < MaxFaults
            /\ failures' = failures + 1
            /\ anomalies' = anomalies \cup {"write"}
            /\ \E c \in WriteCuts(ExportString) :
                  /\ c[1] < Len(ExportString)
                  /\ outputs' = FileWith(writer,
                                 Appended(OpenedFile(writer),
                                          CutShort(ExportString, c)))
            /\ UNCHANGED writer
    /\ ExportNextItem
    /\ UNCHANGED <<remote, limiter, cacheDir, store, dstatusFile, pstatusFile,
                   dresume, dst, pageItems, respTotal, pageDownloaded, pageSkipped,
                   reqLog, ppc, pst, orderFiles, filesToProcess, fileIdx,
                   keepFiles, presume, clock, hist, runs, kills>>

\* the exporter process is killed: its memory is lost, the CSV file stays as
\* far as it was written
KillExport ==
    /\ dpc \notin Stopped /\ exporter \in Exporters
    /\ kills + failures < MaxFaults
    /\ kills' = kills + 1
    /\ anomalies' = anomalies \cup {"kill"}
    /\ dpc' = "idle"
    /\ DownloadIdle
    /\ writer' = NoWriter
    /\ IF dpc = "writing"
       THEN \E c \in WriteCuts(ExportString) :
                outputs' = FileWith(writer,
                               Appended(OpenedFile(writer),
                                        CutShort(ExportString, c)))
       ELSE UNCHANGED outputs
    /\ UNCHANGED <<remote, limiter, cacheDir, store, dstatusFile, pstatusFile,
                   dresume, loopExit, reqLog, ppc, pst, orderFiles,
                   filesToProcess, fileIdx, keepFiles, presume, clock, hist,
                   exitCode, runs, failures>>

\* a fresh installation and a small remote collection: orders of which one
\* may have another shape, or customers with one address of which one may have
\* none or several
InitExport ==
    /\ total \in 0..MaxOrders
    /\ pageSize \in 1..MaxPageSize
    /\ exporter \in Exporters
    /\ IF exporter = "customers"
       THEN \E other \in 0..total, n \in 0..MaxAddresses :
               shape = [id \in 1..total |->
                          [addresses |-> IF id = other THEN n ELSE 1]]
       ELSE \E other \in 0..total, sh \in OrderShapes :
               shape = [id \in 1..total |->
                          IF id = other THEN sh ELSE PendingOrder]
    /\ itemCount = MaxItems
    /\ outage = 0
    /\ rate = DefaultRate
    /\ cacheDir = FALSE
    /\ store = [id \in 1..total |-> <<>>]
    /\ dstatusFile = <<>>
    /\ pstatusFile = <<>>
    /\ outputs = <<>>
    /\ NoProcesses

NextExport ==
    \/ StartExport
    \/ \E ok \in BOOLEAN : ExportTestConnection(ok)
    \/ \E outcome \in {"ok", "auth", "denied", "transient"} : ExportPage(outcome)
    \/ \E txOk \in BOOLEAN : ExportItem(txOk)
    \/ \E shipOk \in BOOLEAN : ExportShipments(shipOk)
    \/ \E openOk \in BOOLEAN : ExportWrite(openOk)
    \/ \E writeOk \in BOOLEAN : ExportWriteDone(writeOk)
    \/ KillExport

SpecExport == InitExport /\ [][NextExport]_vars

\* both stages, from a fresh installation or from a downloaded cache
Init == InitDownload \/ InitProcess

Spec == Init /\ [][Next]_vars

(***************************************************************************)
(* Properties                                                              *)
(***************************************************************************)
Units == {id \in DOMAIN store : store[id] # <<>>}

\* the units written completely that are in the store
CreatedUnits == {id \in Units : store[id][1].written}

\* the status a run of the stage would load from the disk
DownloadCheckpoint == loadDownloadStatus

ProcessCheckpoint == loadProcessStatus

DownloadCompleted == dstatusFile # <<>> /\ DownloadCheckpoint.completed

ProcessCompleted == pstatusFile # <<>> /\ ProcessCheckpoint.completed

PageRequests == SelectSeq(reqLog, LAMBDA r : r.kind = "page")

\* the store that a download without a kill or a failure leaves: for every
\* order its document with transactions and, where they are fetched, shipments
UninterruptedStore ==
    [id \in 1..total |->
        <<[OrderDocument(id, TRUE, shape[id].shipments \/ NeedsShipments(id))
              EXCEPT !.written = TRUE]>>]

\* C1: a download over a static collection with no failing request or write,
\* killed at any point and continued, ends with the store of an uninterrupted
\* run: the complete unit of every order of the collection.
C1_IdempotentResume ==
    (dpc = "done" /\ DownloadCompleted /\ failures = 0)
        => store = UninterruptedStore

Lines(f) == IF f \in DOMAIN outputs THEN Range(outputs[f]) ELSE {}

\* a process run was killed and the run resumed after it has completed
ResumedToCompletion ==
    /\ ppc = "done" /\ presume /\ ProcessCompleted
    /\ hist.started /\ hist.killedAt # {}
    /\ failures = 0 /\ "writer" \notin anomalies

\* every kill of the logical run fell between two units
KilledBetweenUnits == \A k \in hist.killedAt : k[1] \in {"file", "final"}

\* C2: when a process run was killed and the run resumed with --resume has
\* completed, the output file the checkpoint names holds the rows of every
\* unit that was in the store when the first run started.
C2_NoDataLoss ==
    ResumedToCompletion =>
        \A id \in hist.units :
            \A k \in 1..itemCount :
                \E l \in Lines(ProcessCheckpoint.outputFile) :
                    l.order = id /\ l.item = k

\* C3: when a process run over N readable units is interrupted after unit m
\* and resumed to completion, the checkpoint's processedFiles is N.
C3_ProcessedCount ==
    (ResumedToCompletion /\ KilledBetweenUnits
     /\ Cardinality(hist.units) = hist.files)
        => ProcessCheckpoint.processedFiles = hist.files

\* C4: after a process run interrupted after unit m and resumed, no unit has
\* its rows in an output file more than once.
C4_AtMostOnce ==
    (ResumedToCompletion /\ KilledBetweenUnits)
        => \A f \in DOMAIN outputs :
              \A i, j \in 1..Len(outputs[f]) :
                  (i # j /\ outputs[f][i].order > 0)
                      => outputs[f][i] # outputs[f][j]

\* C5: when the request for page p > 1 fails with 401, the download aborts,
\* the persisted checkpoint shows lastProcessedPage = p - 1 and completed =
\* false, and a following download --resume starts with page p.
C5_AuthAbort ==
    [][(dpc = "done" /\ loopExit = "auth" /\ currentPage > 1)
        => /\ dstatusFile # <<>>
           /\ DownloadCheckpoint.lastProcessedPage = currentPage - 1
           /\ ~DownloadCheckpoint.completed
           /\ (runs' = runs + 1 /\ dresume')
                 => (dpc' = "test" /\ StartPage(dst') = currentPage)]_vars

\* C6: completed = true is persisted in the download checkpoint only by a run
\* that left its page loop by the natural termination condition (an empty
\* page, or page * pageSize >= total_count).
C6_CompletedOnlyNatural ==
    [][(dstatusFile' # dstatusFile /\ DownloadCheckpoint'.completed)
        => loopExit \in {"empty", "total"}]_vars

\* a first, undisturbed download run on the empty store that has ended
CleanFirstRun == dpc = "done" /\ runs = 1 /\ kills = 0 /\ failures = 0

\* C7 as stated: a failure-free run on an empty store over total orders
\* requests exactly ceil(total / pageSize) pages, produces total units and
\* ends with downloadedOrders = total and completed = true.
C7_PagesAsStated ==
    CleanFirstRun
        => /\ Len(PageRequests) = CeilDiv(total, pageSize)
           /\ Cardinality(Units) = total
           /\ DownloadCompleted
           /\ DownloadCheckpoint.downloadedOrders = total

\* C7 (amended): such a run requests the pages 1..ceil(total / pageSize) in
\* order, and the single page 1 when the collection is empty; it produces
\* total units and ends with downloadedOrders = total and completed = true.
C7_Pages ==
    CleanFirstRun
        => /\ Len(PageRequests) = Max(1, CeilDiv(total, pageSize))
           /\ \A i \in 1..Len(PageRequests) : PageRequests[i].key = i
           /\ Cardinality(Units) = total
           /\ \A id \in Units : store[id][1].written
           /\ DownloadCompleted
           /\ DownloadCheckpoint.downloadedOrders = total

\* the scenario of the specification: page size 2, three orders, two pages
C7_Witness ==
    /\ CleanFirstRun /\ total = 3 /\ pageSize = 2
    /\ Len(PageRequests) = 2
    /\ DownloadCheckpoint.downloadedOrders = 3

\* C8: for an order of the page whose unit file exists, the download stage
\* issues no request, leaves the store as it is and does not count the order
\* as downloaded.
C8_IdempotentSkip ==
    [][(dpc = "item" /\ store[pageItems[itemIdx]] # <<>> /\ dpc' # "idle")
        => /\ reqLog' = reqLog
           /\ store' = store
           /\ dst'.downloadedOrders = dst.downloadedOrders
           /\ pageDownloaded' = pageDownloaded]_vars

\* an order of a page was skipped because its unit exists
C8_Witness == pageSkipped > 0 /\ dpc \in {"item", "pageEnd"}

\* the unit of a fulfilled order that was stored without shipment data
StoredWithoutShipments(id) ==
    /\ store[id] # <<>>
    /\ store[id][1].written
    /\ shape[id].status = "complete"
    /\ ~store[id][1].shipments

\* C9: when the shipments fetch for an order fails no error is recorded and
\* the order goes on to be saved without shipment data: the file made for it
\* holds the order as fetched, the write completes it and the page loop goes
\* on; when the process stage later handles that unit it loads it, opens the
\* output file and appends one row for each of its items, none dated by a
\* shipment, without recording an error; the rows are the last rows of the
\* file then, the first of them continuing the line that an earlier write left
\* unfinished when there is one.
C9_ShipmentsFailure ==
    [][/\ (dpc = "shipments" /\ failures' > failures)
            => /\ dpc' = "save"
               /\ ~curOrder'[1].shipments
               /\ dst'.errors = dst.errors
       /\ (dpc = "save" /\ dpc' = "saving")
            => store'[curOrder[1].id] = curOrder
       /\ (dpc = "saving" /\ dpc' # "idle" /\ failures' = failures)
            => /\ store'[curOrder[1].id]
                    = <<[curOrder[1] EXCEPT !.written = TRUE]>>
               /\ dpc' \in {"item", "pageEnd"}
       /\ (/\ ppc = "file"
           /\ StoredWithoutShipments(filesToProcess[fileIdx])
           /\ writer.ready
           /\ ppc' # "idle"
           /\ failures' = failures)
            => ppc' = "write" /\ pst' = pst
       /\ (/\ ppc = "write"
           /\ StoredWithoutShipments(filesToProcess[fileIdx])
           /\ ppc' # "idle"
           /\ failures' = failures)
            => /\ pst'.errors = pst.errors
               /\ pst'.processedFiles = pst.processedFiles + 1
               /\ Len(outputs'[writer.filename]) >= itemCount
               /\ Len(outputs'[writer.filename])
                    = Len(outputs[writer.filename]) + itemCount
                        + (IF writer.fileAppend THEN 0 ELSE 1)
                        - (IF EndsCut(outputs[writer.filename]) THEN 1 ELSE 0)
               /\ \A k \in 1..itemCount :
                     LET row == outputs'[writer.filename]
                                  [Len(outputs'[writer.filename]) - itemCount + k]
                     IN IF k = 1 /\ EndsCut(outputs[writer.filename])
                        THEN row.order = -2
                        ELSE /\ row.order = filesToProcess[fileIdx]
                             /\ row.item = k
                             /\ row.fulfillment_date
                                  \in {"history", "updated_at", ""}]_vars

\* the rows of a unit stored after a failed shipments fetch are in the output
C9_Witness ==
    /\ "shipments" \in anomalies
    /\ \E id \in 1..total :
          /\ shape[id].status = "complete" /\ ~shape[id].shipments
          /\ \E f \in DOMAIN outputs :
                \E i \in 1..Len(outputs[f]) :
                    /\ outputs[f][i].order = id
                    /\ outputs[f][i].item = itemCount
                    /\ outputs[f][i].fulfillment_date # "shipment"

\* a process run is started on a cache directory without unit files
StartsOnEmptyStore ==
    /\ ppc \in Stopped /\ runs' = runs + 1 /\ ppc' \notin Cleaning
    /\ cacheDir /\ Units = {}

\* the run did nothing and ended normally
ProcessNoOp ==
    /\ ppc' = "done" /\ exitCode' = 0
    /\ outputs' = outputs /\ pstatusFile' = pstatusFile /\ store' = store

\* C10 as stated: a process run on a store with no units is a no-op when the
\* persisted checkpoint has completed = true, and otherwise ends with "no
\* files found" and exit code 1.
C10_EmptyStoreAsStated ==
    [][StartsOnEmptyStore
        => IF ProcessCompleted THEN ProcessNoOp
           ELSE ppc' = "exit" /\ exitCode' = 1]_vars

\* C10 (amended): a process run on a store with no units is a no-op when it
\* is run with --resume and the persisted checkpoint has completed = true;
\* otherwise (without --resume, or completed not true) it ends with "no files
\* found" and exit code 1, writing nothing.
C10_EmptyStore ==
    [][StartsOnEmptyStore
        => IF presume' /\ ProcessCompleted THEN ProcessNoOp
           ELSE /\ ppc' = "exit" /\ exitCode' = 1
                /\ outputs' = outputs /\ pstatusFile' = pstatusFile]_vars

\* process --resume after a completed default run: nothing left, nothing done
C10_Witness ==
    /\ ppc = "done" /\ presume /\ runs >= 2
    /\ writer = NoWriter
    /\ ProcessCompleted /\ Units = {} /\ cacheDir
    /\ ProcessCheckpoint.processedFiles > 0

\* the sequence names every unit file of the store once, in lexicographic
\* order of the file names
ExactSortedListing(files) ==
    /\ Range(files) = Units
    /\ Len(files) = Cardinality(Units)
    /\ \A i \in 1..(Len(files) - 1) :
          StrLess(FileName(files[i]), FileName(files[i + 1]))

\* C11: the file list a process run reads at its start names exactly the
\* unit files of the cache directory, never a checkpoint file, in the
\* lexicographic order of their names; the store determines this sequence, so
\* that two calls with no store mutation in between return the same.
C11_Listing ==
    [][(ppc \in Stopped /\ ppc' \notin Stopped)
          => ExactSortedListing(orderFiles')]_vars

\* a run has listed a cache in which order-10.json sorts before order-2.json,
\* next to both checkpoint files
C11_Witness ==
    /\ ppc \notin Stopped /\ fileIdx = 1 /\ runs = 2
    /\ Len(orderFiles) > SaveEvery
    /\ orderFiles[1] = 1 /\ orderFiles[2] = 10
    /\ dstatusFile # <<>> /\ pstatusFile # <<>>

\* C12: whenever no download is writing, in particular after a kill at any
\* point of the writing of a unit, every unit file that the exists-check and
\* the listing see holds its complete document.
C12_AtomicPut ==
    dpc \in Stopped
        => \A id \in DOMAIN store :
              orderFileExists(id) => loadOrder(id) # <<>>

\* C13: whenever no write of rows is under way, after any sequence of process
\* runs and resumed runs, every output file starts with the header row and
\* holds no other header row: a writer that appends to an existing file emits
\* none, a writer opened fresh emits it once before its first data row.
C13_HeaderOnce ==
    ppc # "write"
        => \A f \in DOMAIN outputs :
              /\ Len(outputs[f]) >= 1
              /\ outputs[f][1] = HeaderLine
              /\ \A i \in 2..Len(outputs[f]) : outputs[f][i] # HeaderLine

\* the list and sub-resource methods of MagentoAPI
DataMethods == {"getOrders", "getCustomers", "getCustomer",
                "getOrderTransactions", "getOrderShipments"}

\* C14: of the requests of the list and sub-resource methods of MagentoAPI at
\* most `rate` (config.requestsPerSecond) are executing at any moment; the
\* waiting ones are started in the order of their submission, and none waits
\* while a place is free.
C14_Limiter ==
    /\ Cardinality({op \in inFlight : op.method \in DataMethods}) <= rate
    /\ \A i, j \in 1..Len(started) : i < j => started[i] < started[j]
    /\ \A i, j \in 1..Len(queue) : i < j => queue[i].ticket < queue[j].ticket
    /\ \A i \in 1..Len(queue) :
          \A j \in 1..Len(started) : started[j] < queue[i].ticket
    /\ queue # <<>>
          => Cardinality({op \in inFlight : op.method \in DataMethods}) = rate

\* the limiter is full, two operations wait, and one that waited has started
C14_Witness ==
    /\ Cardinality({op \in inFlight : op.method \in DataMethods}) = rate
    /\ Len(queue) >= 2
    /\ \E i \in 1..Len(started) : started[i] > rate

\* C15: when the cleanup command has completed (no unlink having failed for
\* a reason of the file system), the cache directory holds no unit file and
\* neither process-status.json nor download-status.json.
C15_CleanupEmpties ==
    (ppc = "cleaned" /\ "delete" \notin anomalies /\ "unlink" \notin anomalies)
        => /\ Units = {}
           /\ pstatusFile = <<>>
           /\ dstatusFile = <<>>

\* a step of a process run invoked with --keep-files, its first included
KeepFilesStep ==
    \/ ppc \notin Stopped /\ keepFiles
    \/ ppc \in Stopped /\ ppc' \notin Stopped /\ keepFiles'

\* C16: no step of a process run invoked with --keep-files changes the store,
\* so the units after the run, completed or interrupted, are those before it;
\* in a run without the flag the next step after a unit was consumed (its rows
\* written and counted) is the deletion of that unit's file, which removes it
\* from the store unless the unlink fails.
C16_Retention ==
    [][/\ KeepFilesStep => store' = store
       /\ (ppc \notin Stopped /\ ~keepFiles
             /\ pst'.processedFiles > pst.processedFiles)
          => ppc' = "delete"
       /\ (ppc = "delete" /\ ppc' # "idle" /\ failures' = failures)
          => /\ ~keepFiles
             /\ pst.lastProcessedFile \in Units
             /\ store' = [store EXCEPT ![pst.lastProcessedFile] = <<>>]]_vars

\* a run with --keep-files was killed and resumed with --keep-files to
\* completion with every unit still in the store
C16_Witness ==
    /\ ppc = "done" /\ keepFiles /\ presume /\ hist.killedAt # {}
    /\ ProcessCompleted /\ ProcessCheckpoint.processedFiles > SaveEvery
    /\ Units = hist.units /\ Cardinality(Units) > SaveEvery

\* C17: a run that has ended exits with code 1 exactly when it met an
\* unrecoverable failure, and with 0 otherwise: a download run exits 1 when
\* its connection test or its final save failed or a page answered 401/403
\* (and then does not persist completed = true), a process run exits 1 when
\* the cache directory is missing or holds no unit file or its final save
\* failed.
C17_ExitCodes ==
    /\ dpc \in {"done", "exit"}
          => /\ exitCode = 1 <=> (dpc = "exit" \/ loopExit = "auth")
             /\ loopExit = "auth" => ~DownloadCompleted
    /\ ppc \in {"done", "exit"}
          => (exitCode = 1 <=>
                \/ ~cacheDir
                \/ (Units = {} /\ writer = NoWriter
                      /\ ~(presume /\ ProcessCompleted))
                \/ (ppc = "exit" /\ "status" \in anomalies))

\* the order has an entry in the errors of the status in memory
HasOrderError(id) ==
    \E i \in 1..Len(dst.errors) : dst.errors[i] = OrderError(id)

\* the saving of the order at hand fails in this step: the file cannot be
\* made, or the write to it fails
SaveFails ==
    /\ dpc \in {"save", "saving"}
    /\ failures' > failures

\* C18: when the download of one order of a page fails (its unit write
\* fails), exactly one entry naming the order is appended to the errors of the
\* checkpoint and the loop goes on with the next order of the same page; at the
\* end of the page every order of it has a unit or an entry in the errors, and
\* the save that follows, unless it fails itself, persists the checkpoint with
\* lastProcessedPage = the page and with the errors.
C18_EntityFailure ==
    [][/\ SaveFails
          => /\ dst'.errors = Append(dst.errors, OrderError(pageItems[itemIdx]))
             /\ curOrder[1].id = pageItems[itemIdx]
             /\ store' = store /\ dstatusFile' = dstatusFile
             /\ currentPage' = currentPage /\ pageItems' = pageItems
             /\ IF itemIdx < Len(pageItems)
                THEN dpc' = "item" /\ itemIdx' = itemIdx + 1
                ELSE dpc' = "pageEnd"
       /\ dpc = "pageEnd"
          => /\ \A id \in Range(pageItems) : id \in Units \/ HasOrderError(id)
             /\ dpc' \in {"pageSave", "page", "idle"}
       /\ (dpc = "pageSave" /\ dpc' # "idle" /\ failures' = failures)
          => /\ dstatusFile' = <<dst>>
             /\ DownloadCheckpoint'.lastProcessedPage = currentPage
             /\ DownloadCheckpoint'.errors = dst.errors]_vars

\* the write of the first order of a page failed, the second order of the
\* page was downloaded and the page's checkpoint is on disk with the one error
C18_Witness ==
    /\ dpc \in {"page", "final"} /\ "save" \in anomalies
    /\ Len(pageItems) = 2 /\ pageDownloaded = 1
    /\ pageItems[1] \notin Units /\ pageItems[2] \in Units
    /\ dstatusFile \notin {<<>>, TornFile}
    /\ DownloadCheckpoint.lastProcessedPage = currentPage - 1
    /\ DownloadCheckpoint.errors = <<OrderError(pageItems[1])>>

\* the units of the orders of the page at hand
PageUnits == {id \in Range(pageItems) : id \in Units}

\* the positions of the page loop of a download run
InPageLoop == {"page", "item", "shipments", "save", "saving", "pageEnd",
               "pageSave"}

\* the step completes the write of a checkpoint inside the page loop
PersistsPage ==
    /\ dpc \in InPageLoop
    /\ dstatusFile' \notin {dstatusFile, TornFile}

\* the step moves the cursor of a running page loop
CursorMoves ==
    /\ dpc \in InPageLoop /\ dpc' \notin Stopped
    /\ currentPage' # currentPage

\* C19: the checkpoint with lastProcessedPage = p is persisted by the save
\* that ends page p, when every order of the page has been handled and no
\* write of a unit is under way (the units the run wrote on the page are
\* complete on disk); the cursor moves to page p + 1, for which the next page
\* request is made, only in the step that completes the write of that
\* checkpoint, and a run starts at a page p + 1 > 1 only from a checkpoint on
\* disk with lastProcessedPage = p; and the downloadedOrders that is persisted
\* grows by one exactly with each unit the run has written.
C19_PageOrdering ==
    [][/\ PersistsPage
          => /\ dpc = "pageSave" /\ itemIdx = Len(pageItems)
             /\ curOrder = <<>>
             /\ dstatusFile' = <<dst>>
             /\ DownloadCheckpoint'.lastProcessedPage = currentPage
             /\ Cardinality(PageUnits \cap CreatedUnits) >= pageDownloaded
       /\ CursorMoves
          => /\ currentPage' = currentPage + 1
             /\ dstatusFile' = <<dst>>
             /\ dst.lastProcessedPage = currentPage
       /\ (dpc = "test" /\ dpc' = "page" /\ currentPage' > 1)
          => /\ dstatusFile \notin {<<>>, TornFile}
             /\ DownloadCheckpoint.lastProcessedPage = currentPage' - 1
       /\ (dpc = "page" /\ Len(reqLog') > Len(reqLog))
          => reqLog'[Len(reqLog')].key = currentPage
       /\ (dpc \in InPageLoop /\ dpc' \notin Stopped)
          => dst'.downloadedOrders - dst.downloadedOrders
               = Cardinality(CreatedUnits') - Cardinality(CreatedUnits)]_vars

\* the second page of a run was requested after the checkpoint of the first
\* was persisted, and its own checkpoint, counting the units of both pages, is
\* on disk
C19_Witness ==
    /\ dpc \in {"page", "final"} /\ currentPage = 3 /\ ~dresume
    /\ Len(PageRequests) = 2 /\ PageRequests[2].key = 2
    /\ dstatusFile \notin {<<>>, TornFile}
    /\ DownloadCheckpoint.lastProcessedPage = 2
    /\ pageDownloaded > 0
    /\ DownloadCheckpoint.downloadedOrders > pageDownloaded
    /\ DownloadCheckpoint.downloadedOrders = Cardinality(Units)

\* the run at hand has not requested a page yet
NoPageRequested == dpc = "page" /\ PageRequests = <<>>

\* C20: the download cursor starts at 1 in a fresh run and at the persisted
\* lastProcessedPage + 1 in a resumed run; it only moves from a page to the
\* next one, by the save that ends a page whose request was answered with
\* orders; the checkpoint that the save of a page replaces, when the run
\* resumed from it or wrote it, has lastProcessedPage = the page - 1, and the
\* checkpoint that the save writes has lastProcessedPage = the page; the final
\* save keeps the value.
C20_Cursor ==
    [][/\ NoPageRequested
          => currentPage = (IF dresume
                            THEN loadDownloadStatus.lastProcessedPage + 1
                            ELSE 1)
       /\ dpc \in InPageLoop
          => /\ currentPage >= 1
             /\ dst.lastProcessedPage \in {currentPage - 1, currentPage}
       /\ CursorMoves
          => /\ dpc = "pageSave" /\ currentPage' = currentPage + 1
             /\ PageRequests # <<>>
             /\ PageRequests[Len(PageRequests)].key = currentPage
             /\ pageItems = getOrdersItems(currentPage) /\ pageItems # <<>>
       /\ (dpc = "pageEnd" /\ dstatusFile' = TornFile
             /\ dstatusFile \notin {<<>>, TornFile}
             /\ (dresume \/ currentPage > 1))
          => DownloadCheckpoint.lastProcessedPage = currentPage - 1
       /\ PersistsPage
          => DownloadCheckpoint'.lastProcessedPage = currentPage
       /\ (dpc = "finalSave" /\ dstatusFile' \notin {dstatusFile, TornFile})
          => /\ DownloadCheckpoint'.lastProcessedPage = dst.lastProcessedPage
             /\ dst.lastProcessedPage \in {currentPage - 1, currentPage}]_vars

\* a killed download was resumed at page 2 and the checkpoint of page 2 is
\* persisted
C20_Witness ==
    /\ dpc \in {"page", "final"} /\ dresume /\ kills > 0
    /\ Len(PageRequests) = 1 /\ PageRequests[1].key = 2
    /\ dstatusFile \notin {<<>>, TornFile}
    /\ DownloadCheckpoint.lastProcessedPage = 2
    /\ currentPage = 3

\* C21: a page loop that got a non-empty page goes on to the next page unless
\* page * pageSize >= the total_count reported by the page-1 response (kept in
\* totalOrders of the checkpoint), whatever total_count the later pages
\* report.
C21_TotalReadOnce ==
    [][(dpc = "pageSave" /\ currentPage' = currentPage + 1)
        => (dpc' = "final" <=> currentPage * pageSize >= dst.totalOrders)]_vars

\* a page request fails in this step with something other than 401/403
TransientPageFailure ==
    /\ dpc = "page" /\ Len(dst'.errors) > Len(dst.errors)
    /\ loopExit' # "auth"

\* C22: a page request that fails with a transient error leaves the download
\* in its page loop with the same page number, the same lastProcessedPage in
\* memory and on disk and no exit; and every page request is made for the
\* page number the loop stands at, so the next request repeats the page.
C22_TransientRetry ==
    [][/\ TransientPageFailure
          => /\ dpc' = "page" /\ currentPage' = currentPage
             /\ dst'.lastProcessedPage = dst.lastProcessedPage
             /\ dstatusFile' = dstatusFile /\ exitCode' = exitCode
             /\ store' = store
       /\ (dpc = "page" /\ reqLog' # reqLog)
          => /\ Len(reqLog') = Len(reqLog) + 1
             /\ reqLog'[Len(reqLog')].kind = "page"
             /\ reqLog'[Len(reqLog')].key = currentPage]_vars

\* page 2 was requested twice in a row, the first request having failed, and
\* the run has gone on with the orders of the page
C22_Witness ==
    /\ "transient" \in anomalies /\ dpc \in {"item", "saving", "pageEnd"}
    /\ Len(PageRequests) = 3
    /\ PageRequests[2].key = 2 /\ PageRequests[3].key = 2
    /\ dst.errors = <<PageError(2)>> /\ dst.lastProcessedPage = 1
    /\ currentPage = 2

\* C23: once a page request of a download run has failed with 401 or 403 the
\* run issues no further remote request: the failed request is the last entry
\* of the run's request log and the run only goes on to its end.
C23_NoRequestAfterAuth ==
    [][/\ loopExit' = "auth"
          => IF loopExit = "auth" THEN reqLog' = reqLog
             ELSE /\ dpc = "page" /\ dpc' = "final"
                  /\ reqLog' = Append(reqLog, [kind |-> "page",
                                               key |-> currentPage,
                                               limited |-> TRUE])
       /\ loopExit = "auth"
            => dpc \in {"final", "finalSave", "done", "exit", "idle"}]_vars

\* the request for page 2 failed with 401/403 after page 1 was downloaded, and
\* the run has ended with that request as its last one
C23_Witness ==
    /\ dpc = "done" /\ loopExit = "auth" /\ "auth" \in anomalies
    /\ Len(PageRequests) = 2
    /\ reqLog[Len(reqLog)] = [kind |-> "page", key |-> 2, limited |-> TRUE]
    /\ Units # {}

\* a transactions or shipments request of the order at hand fails in this step
SubResourceFailure ==
    /\ dpc \in {"item", "shipments"}
    /\ Len(reqLog') = Len(reqLog) + 1
    /\ reqLog'[Len(reqLog')].kind \in {"transactions", "shipments"}
    /\ failures' > failures

\* C24: a failed fetch of any API method reaches the calling stage as an
\* error: when the transactions or shipments request of an order fails, the
\* download stage's handler for the order records the error and leaves the
\* order, so that no unit is written from a substitute result.
C24_FetchErrorsSurface ==
    [][SubResourceFailure
        => /\ Len(dst'.errors) = Len(dst.errors) + 1
           /\ dpc' \in {"item", "pageEnd"}]_vars

\* C25: every remote request a download run has issued, the connection test
\* included, went through the limiter.
C25_AllLimited == \A i \in 1..Len(reqLog) : reqLog[i].limited

\* download --resume is started on a download checkpoint with completed = true
ResumesCompletedDownload ==
    /\ dpc \in Stopped /\ runs' = runs + 1 /\ dresume'
    /\ DownloadCompleted

\* process --resume is started on a process checkpoint with completed = true
ResumesCompletedProcess ==
    /\ ppc \in Stopped /\ runs' = runs + 1 /\ presume'
    /\ ProcessCompleted

\* nothing on disk changes
DiskUnchanged ==
    /\ store' = store /\ outputs' = outputs
    /\ dstatusFile' = dstatusFile /\ pstatusFile' = pstatusFile

\* C26: a --resume run of either stage that finds completed = true in its
\* checkpoint ends at once with exit code 0: it has issued no remote request
\* and no unit, output file or checkpoint file has changed.
C26_ResumeCompletedNoOp ==
    [][/\ ResumesCompletedDownload
          => /\ dpc' = "done" /\ exitCode' = 0 /\ reqLog' = <<>>
             /\ DiskUnchanged
       /\ ResumesCompletedProcess
          => /\ ppc' = "done" /\ exitCode' = 0 /\ reqLog' = <<>>
             /\ writer' = NoWriter
             /\ DiskUnchanged]_vars

\* download --resume after a download that completed with units: the run has
\* ended without a request
C26_Witness ==
    /\ dpc = "done" /\ dresume /\ runs = 2 /\ reqLog = <<>>
    /\ DownloadCompleted /\ DownloadCheckpoint.downloadedOrders > 0
    /\ Units # {} /\ kills = 0 /\ failures = 0

\* lastProcessedFile of the process checkpoint on disk, 0 when there is none
PersistedLastFile ==
    IF pstatusFile = <<>> THEN 0 ELSE ProcessCheckpoint.lastProcessedFile

\* a process run with --resume starts its loop on a checkpoint that names a
\* last processed file
ResumeAfterFile ==
    /\ ppc \in Stopped /\ ppc' \notin Stopped /\ presume'
    /\ PersistedLastFile # 0

\* the files to process are those of the listing after position k
SuffixAfter(k) ==
    filesToProcess' = SubSeq(orderFiles', k + 1, Len(orderFiles'))

\* C27 as stated: a resumed process run works on exactly the files that come
\* after lastProcessedFile by position in the sorted listing.
C27_ResumeSkipsAsStated ==
    [][ResumeAfterFile
        => \E k \in 1..Len(orderFiles') :
              orderFiles'[k] = PersistedLastFile /\ SuffixAfter(k)]_vars

\* C27 (amended): a resumed process run works on the files that come after
\* lastProcessedFile by position in the sorted listing when the listing still
\* holds that file, and on the whole listing when it does not (the file was
\* deleted after it was processed); the loop takes the files one by one in
\* that order, each counted unit being the file the loop stands at.
C27_ResumeSkips ==
    [][/\ ResumeAfterFile
          => IF PersistedLastFile \in Range(orderFiles')
             THEN \E k \in 1..Len(orderFiles') :
                     orderFiles'[k] = PersistedLastFile /\ SuffixAfter(k)
             ELSE filesToProcess' = orderFiles'
       /\ (ppc \notin Stopped /\ ppc' \notin Stopped)
          => /\ filesToProcess' = filesToProcess
             /\ fileIdx' \in {fileIdx, fileIdx + 1}
             /\ pst'.processedFiles > pst.processedFiles
                  => pst'.lastProcessedFile = filesToProcess[fileIdx]]_vars

\* a --keep-files run was killed after its checkpoint of 10 files and the
\* resumed run works on the one file of the listing after the 10th
C27_Witness ==
    /\ ppc \notin Stopped /\ presume /\ PersistedLastFile # 0
    /\ Len(orderFiles) > SaveEvery
    /\ orderFiles[SaveEvery] = PersistedLastFile
    /\ filesToProcess = <<orderFiles[SaveEvery + 1]>>

\* the units whose rows are in the output files: (file, position) pairs at
\* which the rows of one unit stand, all of them and in their order
SinkUnits ==
    {p \in UNION {{<<f, i>> : i \in 1..Len(outputs[f])} : f \in DOMAIN outputs} :
        /\ outputs[p[1]][p[2]].order > 0
        /\ p[2] + itemCount - 1 <= Len(outputs[p[1]])
        /\ \A k \in 1..itemCount :
              /\ outputs[p[1]][p[2] + k - 1].order = outputs[p[1]][p[2]].order
              /\ outputs[p[1]][p[2] + k - 1].item = k}

\* the number of rows of those units
SinkRows == itemCount * Cardinality(SinkUnits)

\* the unit appended last to the file
LastSinkUnit(f) ==
    LET last == CHOOSE p \in SinkUnits :
                    p[1] = f /\ \A q \in SinkUnits : q[1] = f => q[2] <= p[2]
    IN outputs[f][last[2]].order

\* the process at hand is the first of a logical run or continues one
InLogicalRun == ppc \notin Stopped /\ (runs = 1 \/ presume)

\* C28: at every point of a process run the checkpoint in memory counts the
\* units (processedFiles) and the rows (totalLines) appended to the output
\* since the logical run began, and names the unit appended last.
C28_Accounting ==
    InLogicalRun
        => /\ pst.processedFiles = Cardinality(SinkUnits)
           /\ pst.totalLines = SinkRows
           /\ pst.processedFiles > 0
                => /\ \E p \in SinkUnits : p[1] = pst.outputFile
                   /\ LastSinkUnit(pst.outputFile) = pst.lastProcessedFile

\* every row of the unit is in the output file the run writes
RowsAppended(id) ==
    /\ pst.outputFile \in DOMAIN outputs
    /\ \A k \in 1..itemCount :
          \E i \in 1..Len(outputs[pst.outputFile]) :
             /\ outputs[pst.outputFile][i].order = id
             /\ outputs[pst.outputFile][i].item = k

\* C29: a step of a process run that removes a unit from the store removes
\* exactly the unit processed last, all of whose rows are rows of the output
\* file;
\* a step that records a load, format or write failure for a unit removes
\* nothing and is not followed by the deletion of a file.
C29_DeleteAfterWrite ==
    [][/\ (ppc \notin Stopped \cup Cleaning /\ store' # store)
          => /\ ppc = "delete" /\ ~keepFiles
             /\ pst.lastProcessedFile \in Units
             /\ RowsAppended(pst.lastProcessedFile)
             /\ store' = [store EXCEPT ![pst.lastProcessedFile] = <<>>]
       /\ (ppc \in {"file", "write"} /\ Len(pst'.errors) > Len(pst.errors))
          => /\ store' = store /\ ppc' # "delete"
             /\ pst'.errors[Len(pst'.errors)].key \in Units']_vars

\* a step inside a process run, its end included, that is not its kill
RunStep == ppc \notin Stopped \cup Cleaning /\ ppc' # "idle"

\* the count of processed files is one at which the periodic save is due
SaveDue == pst.processedFiles > 0 /\ pst.processedFiles % 10 = 0

\* C30: inside a process run the checkpoint file is opened and written only
\* by the periodic save, at which processedFiles is a positive multiple of 10,
\* and by the final save that sets completed; whenever the count of processed
\* files has become a multiple of 10 the periodic save is the next thing the
\* run does after the deletion (if any) of the file, before it goes on; and a
\* save that does not fail leaves the status of the run in the file.
C30_SaveEveryTen ==
    [][/\ (RunStep /\ pstatusFile' # pstatusFile)
          => \/ /\ ppc = "save" /\ pstatusFile' = TornFile
                /\ SaveDue /\ ~pst.completed
             \/ /\ ppc = "saving" /\ pstatusFile' = <<pst>>
                /\ SaveDue /\ ~pst.completed
             \/ /\ ppc = "final" /\ pstatusFile' = TornFile
             \/ /\ ppc = "finalSave" /\ ppc' = "done"
                /\ pstatusFile' = <<pst>> /\ pst.completed
       /\ (RunStep /\ pst'.processedFiles > pst.processedFiles)
          => IF pst'.processedFiles % 10 = 0
             THEN ppc' \in {"delete", "save"}
             ELSE ppc' # "save"
       /\ (RunStep /\ ppc = "delete")
          => (ppc' = "save" <=> pst.processedFiles % 10 = 0)
       /\ (RunStep /\ ppc = "save" /\ failures' = failures)
          => ppc' = "saving"
       /\ (RunStep /\ ppc = "saving" /\ failures' = failures)
          => pstatusFile' = <<pst>> /\ ppc' \in {"file", "final"}
       /\ (RunStep /\ ppc \in {"file", "write"}
             /\ Len(pst'.errors) > Len(pst.errors))
          => ppc' # "save" /\ pstatusFile' = pstatusFile]_vars

\* the tenth file was followed by a save and the eleventh was not: the file
\* on disk counts 10, the status in memory 11
C30_Witness ==
    /\ ppc \in {"file", "delete", "final"} /\ runs = 1
    /\ pst.processedFiles = SaveEvery + 1
    /\ pstatusFile \notin {<<>>, TornFile} /\ ~ProcessCheckpoint.completed
    /\ ProcessCheckpoint.processedFiles = SaveEvery

\* C31: when a process run stands at the start of a unit, the checkpoint on
\* disk accounts for every unit the run has processed so far.
C31_DurableBeforeNext ==
    (ppc = "file" /\ pst.processedFiles > 0)
        => /\ pstatusFile # <<>>
           /\ ProcessCheckpoint.processedFiles = pst.processedFiles
           /\ ProcessCheckpoint.lastProcessedFile = pst.lastProcessedFile

\* the step persists a process checkpoint with completed = true
PersistsCompleted ==
    /\ ppc \notin Stopped /\ pstatusFile' # pstatusFile
    /\ ProcessCheckpoint'.completed

\* the unit is named by an entry of the errors of the status in memory
RecordedFailed(id) ==
    \E i \in 1..Len(pst.errors) : pst.errors[i] = FileError(id)

\* C32: completed = true is persisted once, at the end of the loop,
\* and then every unit listed at the start of the run has its rows in the
\* output file, and after a run without --keep-files no unit is in the store.
C32_CompletedAsStated ==
    [][PersistsCompleted
        => /\ ppc = "finalSave" /\ ~ProcessCheckpoint.completed
           /\ \A id \in Range(orderFiles) : RowsAppended(id)
           /\ ~keepFiles => Units = {}]_vars

\* the run takes up a unit it cannot load and handles it
LoadFails ==
    /\ ppc = "file" /\ loadOrder(filesToProcess[fileIdx]) = <<>>
    /\ ppc' \notin Stopped /\ writer' = writer

\* C33: a unit that the process stage cannot read or parse adds exactly one
\* entry, naming it, to the errors of the status; no row is written, no file is
\* removed, processedFiles and lastProcessedFile stay, nothing is saved, and
\* the loop goes on with the next unit (or ends after the last one).
C33_UnreadableUnit ==
    [][LoadFails
        => /\ pst' = [pst EXCEPT
                         !.errors = Append(@, FileError(filesToProcess[fileIdx]))]
           /\ outputs' = outputs /\ store' = store /\ pstatusFile' = pstatusFile
           /\ IF fileIdx < Len(filesToProcess)
              THEN ppc' = "file" /\ fileIdx' = fileIdx + 1
              ELSE ppc' = "final"]_vars

\* the first of two units could not be loaded and the run stands at the second
C33_Witness ==
    /\ ppc = "file" /\ fileIdx = 2 /\ Len(filesToProcess) = 2
    /\ loadOrder(filesToProcess[1]) = <<>> /\ filesToProcess[1] \in Units
    /\ loadOrder(filesToProcess[2]) # <<>>
    /\ pst.errors = <<FileError(filesToProcess[1])>>
    /\ pst.processedFiles = 0 /\ pst.lastProcessedFile = 0
    /\ outputs = << >>

\* the unlink of the unit just written fails in this step
DeleteFails ==
    /\ ppc = "delete" /\ failures' > failures
    /\ "delete" \in anomalies' /\ store' = store

\* C34: every non-fatal error adds an entry to the errors of the owning
\* stage's status while the run goes on: a failed delete of a written unit adds
\* one to the process status, a failed transactions or shipments fetch adds one
\* to the download status.
C34_ErrorsAccumulate ==
    [][/\ DeleteFails
            => /\ Len(pst'.errors) = Len(pst.errors) + 1
               /\ ppc' \notin Stopped
       /\ SubResourceFailure
            => /\ Len(dst'.errors) = Len(dst.errors) + 1
               /\ dpc' \notin Stopped]_vars

\* C35: whenever a download checkpoint is persisted in a logical run (a first
\* run and the --resume runs after it), its downloadedOrders is the number of
\* units the stage has created, whatever the points at which it was killed.
C35_DownloadCount ==
    [][(dstatusFile' # dstatusFile /\ dstatusFile' \notin {<<>>, TornFile}
          /\ (runs = 1 \/ dresume))
        => DownloadCheckpoint'.downloadedOrders = Cardinality(CreatedUnits')]_vars

\* C36: a download process that has started ends (with the final save of the
\* checkpoint or with an exit), over any finite collection, whether its failing
\* page requests succeed when re-issued or one page keeps failing with a
\* status other than 401/403.
C36_Terminates == (dpc \notin Stopped) ~> (dpc \in Stopped)

\* the run calls csvWriter.writeRecords for the unit at hand in this step
WriteRecordsCall ==
    /\ ppc = "file" /\ loadOrder(filesToProcess[fileIdx]) # <<>>
    /\ (pst' # pst \/ ppc' = "write")

\* C37: initializeWriter, started and not awaited by the constructor, has
\* finished before any writeRecords call of the run executes, whichever way
\* the two interleave; in particular in a resumed run that appends.
C37_WriterInitialised == [][WriteRecordsCall => writer.ready]_vars

\* the entity as the loop body of the exporter holds it when every request
\* for it was answered
Exported(id) ==
    IF exporter = "customers" THEN Customer(id)
    ELSE OrderDocument(id, TRUE,
             shape[id].shipments \/ (exporter = "orders" /\ NeedsShipments(id)))

\* the rows of the entity are in the file of the exporter's writer
ExportedRows(id) ==
    /\ writer.filename \in DOMAIN outputs
    /\ \A i \in 1..Len(ExportLines(exporter, Exported(id))) :
          \E j \in 1..Len(outputs[writer.filename]) :
             outputs[writer.filename][j] = ExportLines(exporter, Exported(id))[i]

\* C38: a single-phase exporter (exportCustomers, the legacy exportOrders, the
\* current exportOrders) that has stopped without a failed request or write
\* has requested every page 1..ceil(total / pageSize) and has written the rows
\* of all the items of the collection.
C38_ExportersCover ==
    (exporter \in Exporters /\ dpc = "done" /\ failures = 0)
        => /\ \A p \in 1..CeilDiv(total, pageSize) :
                 \E i \in 1..Len(PageRequests) : PageRequests[i].key = p
           /\ \A id \in 1..total : ExportedRows(id)

\* the download has ended by its own termination test or on an empty page
NaturalEnd ==
    /\ dpc = "done" /\ DownloadCompleted
    /\ loopExit \in {"total", "empty"}

\* the order is named by an entry of the errors of the checkpoint on disk
RecordedOrder(id) ==
    \E i \in 1..Len(DownloadCheckpoint.errors) :
        DownloadCheckpoint.errors[i] = OrderError(id)

\* C39: when a download over a static collection has ended by its natural
\* termination condition, whatever kills and resumed runs came before, every
\* order of the collection has a unit in the store that holds its document or
\* is named by an entry of the errors of the checkpoint.
C39_CompleteOrRecorded ==
    NaturalEnd => \A id \in 1..total : id \in CreatedUnits \/ RecordedOrder(id)

====
